---- MODULE Spec2Model ----
(***************************************************************************)
(* A model of the multiprocess embedding-cache and rate-limiting subsystem *)
(* of the themes puzzle pipeline (mp_puzzle_generation):                   *)
(*   - SharedRateLimiter / WorkerRateLimiter   (specification SpecRL)      *)
(* Times are integers in units of 0.1 s (the concurrency gate's polling    *)
(* interval), so 60 s is 600.                                              *)
(***************************************************************************)
EXTENDS Integers, Sequences, FiniteSets, TLC

(***************************************************************************)
(* Bounds of the model.                                                    *)
(***************************************************************************)
\* configuration of the limiter (constructor arguments), kept small
RequestsPerMinute == 1
MinRequestInterval == 1
\* acquisitions started in one run
MaxConcurrentRequests == 1
\* the clock: it starts at StartTime (time.time() is far from 0.0), advances
MaxRequests == 3
\* in fine steps of 0.1 s (at most MaxFine after each coarse step) and in
\* coarse steps of CoarseStep, up to StartTime + MaxElapsed
StartTime == 1000
MaxFine == 1
CoarseStep == 300
MaxElapsed == 602

(***************************************************************************)
(* Program constants (SharedRateLimiter.py), in units of 0.1 s.            *)
(***************************************************************************)
Minute == 600
PollInterval == 1
ConcurrentTimeout == 600

Callers == {"w1", "w2"}
NoOne == "none"
Impls == {"Shared", "Worker"}

VARIABLES
    \* ---- rate limiter ----
    impl,           \* which class the callers use: SharedRateLimiter or WorkerRateLimiter
    now,            \* time.time()
    shared_state,   \* the Manager dict: last_request_time, active_requests,
                    \* requests_this_minute, minute_start_time
    request_lock,   \* holder of request_lock (NoOne when free)
    pc,             \* each caller's position in acquire_request_slot
    current_time,   \* each caller's local current_time
    wake_at,        \* end of the caller's running time.sleep
    start_wait,     \* local start_wait of _wait_for_concurrent_limit
    timed_out,      \* the caller entered through the 60 s gate timeout
    last_exit,      \* how the caller last left its protected block
    request_log,    \* timestamps recorded by acquire_request_slot, in order
    \* ---- embedding cache ----
    shared_cache,   \* the Manager dict, in insertion order: key, word, embedding
    cache_file,     \* the CSV file at cache_file (NoFile when absent)
    got,            \* the last get: the word asked for and what get returned
    put_log,        \* the puts into this cache object, in order (cut by clear)
    loaded,         \* the cache as _load_from_csv left it in __init__
    puts_at_backup, \* put_log as it was when backup_to_csv last ran
    restored,       \* after a restart: the puts the backup before it had covered
    \* ---- orchestrator, backup thread and the file system ----
    main_pc,            \* process_themes: where the main thread is
    thread_pc,          \* backup_worker: where the backup thread is
    shutdown_requested, \* ImprovedGeminiTaskProcessor.shutdown_requested
    fs_tmp,             \* the inode at cache_file.with_suffix('.tmp') (0: no file)
    fs_cache,           \* the inode at cache_file (0: no file)
    inodes,             \* the lines of each inode
    bk,                 \* each running backup_to_csv: position, snapshot, open file
    history,            \* every state the in-memory cache has had
    backups_begun,      \* calls of backup_to_csv
    shutdown_backups,   \* calls of backup_to_csv begun once shutdown had begun
    \* ---- ImprovedThemeWorker.process_task ----
    task,               \* the ThemeProcessingTask: theme, candidates
    task_pc,            \* where process_task is
    next_word,          \* the index of the deduplication loop in task.candidates
    processed_words,    \* the normalized forms of the words kept so far
    unique_words,       \* the words kept so far
    kept_at,            \* the indices in task.candidates of the words kept so far
    cached_embeddings,  \* _get_embeddings_with_cache: one embedding or None per text
    texts_to_generate,  \* the texts the shared cache does not hold
    text_indices,       \* their indices in the batch
    api_calls,          \* calls of generate_embeddings that reached the API
    result,             \* the ThemeProcessingResult returned, or None
    \* ---- process_theme_batch_worker ----
    batch_tasks,        \* tasks: the batch of a worker call
    batch_pc,           \* where process_theme_batch_worker is
    batch_results,      \* results
    \* ---- ImprovedGeminiTaskProcessor._process_tasks_with_executor ----
    exec_pc,            \* where _process_tasks_with_executor is
    task_batches,       \* task_batches: the batches, each a list of task ids
    futures,            \* the state of the future of each batch
    yielded,            \* the futures as_completed has yielded
    done_at_call,       \* the futures already done when as_completed was called
    all_results,        \* all_results
    exec_error,         \* the exception that leaves the with block, if any
    \* ---- ResultAggregator.aggregate_results ----
    agg_pc,             \* where aggregate_results is
    agg_config,         \* themes_per_puzzle and words_per_theme
    successful_results, \* successful_results, in the order of arrival
    failed_results,     \* failed_results
    results_dict,       \* the returned results_dict, or None
    all_embeddings,     \* the returned all_embeddings
    \* ---- workers sharing one cache: _get_embeddings_with_cache ----
    share_pc,           \* where each worker's _get_embeddings_with_cache is
    share_texts,        \* texts, of each worker
    share_cached,       \* cached_embeddings, of each worker
    share_indices,      \* text_indices, of each worker
    sent_log,           \* every text list sent to the provider, in order
    \* ---- GeminiEmbeddingProvider.generate_embeddings ----
    retry_pc,           \* where generate_embeddings is
    max_retries,        \* GeminiEmbeddingProvider.max_retries
    attempt,            \* the loop variable of the retry loop
    outcomes,           \* how each attempt of the API ended
    delays,             \* the delay slept after each failed attempt
    retry_now,          \* time.time() in the provider's process
    request_times,      \* GeminiEmbeddingProvider.request_times
    provider_last,      \* GeminiEmbeddingProvider.last_request_time
    retry_result,       \* the list generate_embeddings returns, or None
    \* ---- workers updating the shared cache statistics ----
    stat_pc,            \* where each worker is in its cache lookups and puts
    stat_texts,         \* texts, of each worker
    stat_i,             \* the text the worker is at
    stat_missed,        \* the texts the worker's lookups missed
    stat_hit,           \* whether the worker's last lookup found an entry
    stat_local,         \* the counter value the worker read
    cache_stats,        \* the Manager dict of statistics the workers share
    lookups_done,       \* lookups performed by all workers
    puts_done,          \* puts performed by all workers
    \* ---- EmbeddingCacheManager instances of ThemeWorker processes ----
    mgr_pc,             \* where each manager is
    mgr_cache,          \* _cache, of each manager (a dict, in insertion order)
    mgr_dirty,          \* _dirty
    mgr_last_sync,      \* _last_sync
    mgr_stats,          \* stats['syncs']
    mgr_file,           \* the cache file
    mgr_tmp,            \* the file cache_file.with_suffix('.tmp')
    mgr_backup,         \* the newest backup file
    mgr_flock,          \* holder of the flock on the lock file (0: free)
    mgr_now,            \* time.time()
    mgr_row,            \* entries of _cache the running save has written
    mgr_call,           \* the public call each manager is in, or last finished
    mgr_fault,          \* an I/O fault or lock timeout hit the manager's call
    mgr_exiting,        \* the worker is in the finally clause of run()
    mgr_put_log,        \* every word put by any manager
    mgr_ops,            \* calls begun, of each manager
    \* ---- GeminiTaskProcessor.process_themes and its ThemeWorker processes ----
    gtp_pc,             \* where process_themes is
    gtp_tasks,          \* len(tasks), the tasks the generator made (ids 1..len)
    gtp_next,           \* position of _submit_tasks in tasks
    task_queue,         \* mp.Queue(maxsize=task_queue_size)
    result_queue,       \* mp.Queue(maxsize=result_queue_size)
    wk_pc,              \* where each worker's run() loop is
    wk_result,          \* the result a worker is about to send
    submitted_count,    \* submitted_count of _submit_tasks
    total_tasks,        \* self.total_tasks
    completed_tasks,    \* self.completed_tasks
    failed_tasks,       \* self.failed_tasks
    gtp_results,        \* keys of self.results
    \* ---- SharedEmbeddingCache: a backup and the fresh cache loaded after it ----
    keys_at_backup,     \* keys of shared_cache when backup_to_csv was last called
    fresh_keys          \* keys of the fresh cache constructed after that backup

rlVars == <<impl, now, shared_state, request_lock, pc, current_time, wake_at,
            start_wait, timed_out, last_exit, request_log>>

cacheVars == <<shared_cache, cache_file, got, put_log, loaded, puts_at_backup,
               restored>>

bkVars == <<main_pc, thread_pc, shutdown_requested, fs_tmp, fs_cache, inodes, bk,
            history, backups_begun, shutdown_backups>>

taskVars == <<task, task_pc, next_word, processed_words, unique_words, kept_at,
              cached_embeddings, texts_to_generate, text_indices, api_calls, result>>

batchVars == <<batch_tasks, batch_pc, batch_results>>

execVars == <<exec_pc, task_batches, futures, yielded, done_at_call, all_results,
              exec_error>>

aggVars == <<agg_pc, agg_config, successful_results, failed_results, results_dict,
             all_embeddings>>

shareVars == <<share_pc, share_texts, share_cached, share_indices, sent_log>>

retryVars == <<retry_pc, max_retries, attempt, outcomes, delays, retry_now, request_times,
               provider_last, retry_result>>

statVars == <<stat_pc, stat_texts, stat_i, stat_missed, stat_hit, stat_local, cache_stats,
              lookups_done, puts_done>>

mgrVars == <<mgr_pc, mgr_cache, mgr_dirty, mgr_last_sync, mgr_stats, mgr_file, mgr_tmp,
             mgr_backup, mgr_flock, mgr_now, mgr_row, mgr_call, mgr_fault, mgr_exiting,
             mgr_put_log, mgr_ops>>

gtpVars == <<gtp_pc, gtp_tasks, gtp_next, task_queue, result_queue, wk_pc, wk_result,
             submitted_count, total_tasks, completed_tasks, failed_tasks, gtp_results>>

snapVars == <<keys_at_backup, fresh_keys>>

\* the components added last
lateVars == <<statVars, mgrVars, gtpVars, snapVars>>

vars == <<rlVars, cacheVars, bkVars, taskVars, batchVars, execVars, aggVars, shareVars,
          retryVars, lateVars>>

\* what each specification leaves alone
notRL == <<cacheVars, bkVars, taskVars, batchVars, execVars, aggVars, shareVars, retryVars, lateVars>>
notCache == <<rlVars, bkVars, taskVars, batchVars, execVars, aggVars, shareVars, retryVars, lateVars>>
notBackup == <<rlVars, cache_file, got, put_log, loaded, puts_at_backup, restored, taskVars,
              batchVars, execVars, aggVars, shareVars, retryVars, lateVars>>
notTask == <<impl, request_lock, pc, current_time, wake_at, start_wait, timed_out,
             last_exit, request_log, cache_file, got, put_log, loaded, puts_at_backup,
             restored, bkVars, execVars, aggVars, shareVars, retryVars, lateVars>>
notExec == <<rlVars, cacheVars, bkVars, taskVars, batchVars, aggVars, shareVars, retryVars, lateVars>>
notAgg == <<rlVars, cacheVars, bkVars, taskVars, batchVars, execVars, shareVars, retryVars, lateVars>>
notBatch == notTask

Max(a, b) == IF a >= b THEN a ELSE b

\* Optional[...]: None, or a value
None == [some |-> FALSE]
Some(v) == [some |-> TRUE, val |-> v]

\* a path with no file on it
NoFile == [exists |-> FALSE]

\* the statistics workers' variables while another component is checked
StatsParked ==
    /\ stat_pc = <<>>
    /\ stat_texts = <<>>
    /\ stat_i = <<>>
    /\ stat_missed = <<>>
    /\ stat_hit = <<>>
    /\ stat_local = <<>>
    /\ cache_stats = <<>>
    /\ lookups_done = 0
    /\ puts_done = 0

\* the cache managers' variables while another component is checked
MgrParked ==
    /\ mgr_pc = <<>>
    /\ mgr_cache = <<>>
    /\ mgr_dirty = <<>>
    /\ mgr_last_sync = <<>>
    /\ mgr_stats = <<>>
    /\ mgr_file = [exists |-> FALSE]
    /\ mgr_tmp = [exists |-> FALSE]
    /\ mgr_backup = [exists |-> FALSE]
    /\ mgr_flock = 0
    /\ mgr_now = 0
    /\ mgr_row = <<>>
    /\ mgr_call = <<>>
    /\ mgr_fault = <<>>
    /\ mgr_exiting = <<>>
    /\ mgr_put_log = {}
    /\ mgr_ops = <<>>

\* the task processor's variables while another component is checked
GtpParked ==
    /\ gtp_pc = "parked"
    /\ gtp_tasks = 0
    /\ gtp_next = 0
    /\ task_queue = <<>>
    /\ result_queue = <<>>
    /\ wk_pc = <<>>
    /\ wk_result = <<>>
    /\ submitted_count = 0
    /\ total_tasks = 0
    /\ completed_tasks = 0
    /\ failed_tasks = 0
    /\ gtp_results = {}

\* no backup was called yet, no fresh cache constructed
SnapParked ==
    /\ keys_at_backup = None
    /\ fresh_keys = None

LateParked ==
    /\ StatsParked
    /\ MgrParked
    /\ GtpParked
    /\ SnapParked

\* the sharing workers' variables while another component is checked
ShareParked ==
    /\ share_pc = <<>>
    /\ share_texts = <<>>
    /\ share_cached = <<>>
    /\ share_indices = <<>>
    /\ sent_log = <<>>

\* the provider's variables while another component is checked
RetryParked ==
    /\ retry_pc = "none"
    /\ max_retries = 0
    /\ attempt = 0
    /\ outcomes = <<>>
    /\ delays = <<>>
    /\ retry_now = 0
    /\ request_times = <<>>
    /\ provider_last = 0
    /\ retry_result = [some |-> FALSE]

\* the aggregator's variables while another component is checked
AggParked ==
    /\ agg_pc = "none"
    /\ agg_config = <<>>
    /\ successful_results = <<>>
    /\ failed_results = <<>>
    /\ results_dict = [some |-> FALSE]
    /\ all_embeddings = <<>>

\* the executor loop's variables while another component is checked
ExecParked ==
    /\ exec_pc = "none"
    /\ task_batches = <<>>
    /\ futures = <<>>
    /\ yielded = {}
    /\ done_at_call = {}
    /\ all_results = <<>>
    /\ exec_error = "none"

\* the batch worker's variables while another component is checked
BatchParked ==
    /\ batch_tasks = <<>>
    /\ batch_pc = "none"
    /\ batch_results = <<>>

\* the worker's variables while another component is checked
TaskParked ==
    /\ task = <<>>
    /\ task_pc = "none"
    /\ next_word = 0
    /\ processed_words = {}
    /\ unique_words = <<>>
    /\ kept_at = <<>>
    /\ cached_embeddings = <<>>
    /\ texts_to_generate = <<>>
    /\ text_indices = <<>>
    /\ api_calls = 0
    /\ result = None

\* the orchestrator's variables while another component is checked
BackupParked ==
    /\ main_pc = "start"
    /\ thread_pc = "none"
    /\ shutdown_requested = FALSE
    /\ fs_tmp = 0
    /\ fs_cache = 0
    /\ inodes = <<>>
    /\ bk = <<>>
    /\ history = {}
    /\ backups_begun = 0
    /\ shutdown_backups = 0

\* the cache's variables while another component is checked
CacheParked ==
    /\ shared_cache = <<>>
    /\ cache_file = NoFile
    /\ got = None
    /\ put_log = <<>>
    /\ loaded = <<>>
    /\ puts_at_backup = <<>>
    /\ restored = <<>>

(***************************************************************************)
(* SharedRateLimiter / WorkerRateLimiter                                   *)
(***************************************************************************)
InitialSharedState ==
    [last_request_time |-> 0, active_requests |-> 0,
     requests_this_minute |-> 0, minute_start_time |-> StartTime]

\* _reset_minute_counter(current_time)
ResetMinuteCounter(st, t) ==
    IF t - st.minute_start_time >= Minute
    THEN [st EXCEPT !.requests_this_minute = 0, !.minute_start_time = t]
    ELSE st

\* the RPM gate's test and the wait it computes (0: no wait)
RpmWaitTime(st, t) ==
    IF st.requests_this_minute >= RequestsPerMinute
    THEN Max(0, Minute - (t - st.minute_start_time))
    ELSE 0

\* the interval gate's wait (0: no wait)
IntervalWaitTime(st, t) ==
    IF t - st.last_request_time < MinRequestInterval
    THEN MinRequestInterval - (t - st.last_request_time)
    ELSE 0

\* a mutant of GateOpen: off by one
GateOpenOffByOne(active) == active <= MaxConcurrentRequests

\* the concurrency gate's test
GateOpen(active) == active < MaxConcurrentRequests

\* a mutant of WaitTimedOut: the spin-wait has no upper bound
WaitNeverTimesOut(wait_time) == FALSE

\* "Prevent infinite waiting": if wait_time > 60
WaitTimedOut(wait_time) == wait_time > ConcurrentTimeout

\* a mutant of SlotAfterExit: the release is skipped when the block raises
SlotAfterExitNoFinally(active, raised) ==
    IF raised THEN active ELSE Max(0, active - 1)

\* the finally clause of acquire_request_slot
SlotAfterExit(active, raised) == Max(0, active - 1)

\* "Record this request"
RecordRequest(st, t) ==
    [st EXCEPT !.last_request_time = t,
               !.requests_this_minute = @ + 1]

Holding == {"rec_read", "rec_lock", "in_block"}
InFlight(c) == pc[c] # "idle"
Started == Len(request_log) + Cardinality({c \in Callers : InFlight(c) /\ pc[c] \notin {"in_block"}})

RLInit ==
    /\ impl \in Impls
    /\ now = StartTime
    /\ shared_state = InitialSharedState
    /\ request_lock = NoOne
    /\ pc = [c \in Callers |-> "idle"]
    /\ current_time = [c \in Callers |-> 0]
    /\ wake_at = [c \in Callers |-> 0]
    /\ start_wait = [c \in Callers |-> 0]
    /\ timed_out = [c \in Callers |-> FALSE]
    /\ last_exit = [c \in Callers |-> "none"]
    /\ request_log = <<>>
    /\ CacheParked
    /\ BackupParked
    /\ TaskParked
    /\ BatchParked
    /\ ExecParked
    /\ AggParked
    /\ ShareParked
    /\ RetryParked
    /\ LateParked

\* the clock advances; a sleeping caller may oversleep
Tick ==
    /\ \E d \in {1, CoarseStep} :
         /\ d = 1 => (now - StartTime) % CoarseStep < MaxFine
         /\ now + d <= StartTime + MaxElapsed
         /\ now' = now + d
    /\ UNCHANGED <<impl, shared_state, request_lock, pc, current_time, wake_at,
                   start_wait, timed_out, last_exit, request_log>>
    /\ UNCHANGED notRL

\* acquire_request_slot is entered; WorkerRateLimiter._wait_for_rpm_limit
\* reads the clock before it takes request_lock
Start(c) ==
    /\ pc[c] = "idle"
    /\ Started < MaxRequests
    /\ pc' = [pc EXCEPT ![c] = "rpm_lock"]
    /\ current_time' = [current_time EXCEPT ![c] = IF impl = "Worker" THEN now ELSE 0]
    /\ last_exit' = [last_exit EXCEPT ![c] = "none"]
    /\ UNCHANGED <<impl, now, shared_state, request_lock, wake_at, start_wait,
                   timed_out, request_log>>
    /\ UNCHANGED notRL

\* _wait_for_rpm_limit, the block under request_lock
RpmCheck(c) ==
    /\ pc[c] = "rpm_lock"
    /\ request_lock = NoOne
    /\ LET t == IF impl = "Worker" THEN current_time[c] ELSE now
           st == ResetMinuteCounter(shared_state, t)
           w == RpmWaitTime(st, t)
       IN /\ shared_state' = st
          /\ IF w > 0
             THEN /\ pc' = [pc EXCEPT ![c] = "rpm_sleep"]
                  /\ wake_at' = [wake_at EXCEPT ![c] = now + w]
                  \* the worker sleeps inside the lock, the orchestrator outside
                  /\ request_lock' = IF impl = "Worker" THEN c ELSE NoOne
             ELSE /\ pc' = [pc EXCEPT ![c] = "int_read"]
                  /\ UNCHANGED <<wake_at, request_lock>>
    /\ current_time' = [current_time EXCEPT ![c] = 0]
    /\ UNCHANGED <<impl, now, start_wait, timed_out, last_exit, request_log>>
    /\ UNCHANGED notRL

\* after the sleep of the RPM gate: the window is reset
RpmWake(c) ==
    /\ pc[c] = "rpm_sleep"
    /\ now >= wake_at[c]
    /\ IF impl = "Worker" THEN request_lock = c ELSE request_lock = NoOne
    /\ shared_state' = [shared_state EXCEPT !.requests_this_minute = 0,
                                            !.minute_start_time = now]
    /\ request_lock' = NoOne
    /\ pc' = [pc EXCEPT ![c] = "int_read"]
    /\ wake_at' = [wake_at EXCEPT ![c] = 0]
    /\ UNCHANGED <<impl, now, current_time, start_wait, timed_out, last_exit,
                   request_log>>
    /\ UNCHANGED notRL

\* _wait_for_interval_limit: current_time = time.time()
IntRead(c) ==
    /\ pc[c] = "int_read"
    /\ current_time' = [current_time EXCEPT ![c] = now]
    /\ pc' = [pc EXCEPT ![c] = "int_lock"]
    /\ UNCHANGED <<impl, now, shared_state, request_lock, wake_at, start_wait,
                   timed_out, last_exit, request_log>>
    /\ UNCHANGED notRL

\* _wait_for_interval_limit, the block under request_lock (the sleep is inside)
IntCheck(c) ==
    /\ pc[c] = "int_lock"
    /\ request_lock = NoOne
    /\ LET w == IntervalWaitTime(shared_state, current_time[c])
       IN IF w > 0
          THEN /\ pc' = [pc EXCEPT ![c] = "int_sleep"]
               /\ wake_at' = [wake_at EXCEPT ![c] = now + w]
               /\ request_lock' = c
          ELSE /\ pc' = [pc EXCEPT ![c] = "conc_start"]
               /\ UNCHANGED <<wake_at, request_lock>>
    /\ current_time' = [current_time EXCEPT ![c] = 0]
    /\ UNCHANGED <<impl, now, shared_state, start_wait, timed_out, last_exit,
                   request_log>>
    /\ UNCHANGED notRL

IntWake(c) ==
    /\ pc[c] = "int_sleep"
    /\ now >= wake_at[c]
    /\ request_lock = c
    /\ request_lock' = NoOne
    /\ pc' = [pc EXCEPT ![c] = "conc_start"]
    /\ wake_at' = [wake_at EXCEPT ![c] = 0]
    /\ UNCHANGED <<impl, now, shared_state, current_time, start_wait, timed_out,
                   last_exit, request_log>>
    /\ UNCHANGED notRL

\* _wait_for_concurrent_limit: start_wait = time.time()
ConcStart(c) ==
    /\ pc[c] = "conc_start"
    /\ start_wait' = [start_wait EXCEPT ![c] = now]
    /\ pc' = [pc EXCEPT ![c] = "conc_try"]
    /\ UNCHANGED <<impl, now, shared_state, request_lock, current_time, wake_at,
                   timed_out, last_exit, request_log>>
    /\ UNCHANGED notRL

\* one round of the spin-wait: the test and the increment under active_lock
ConcTry(c) ==
    /\ pc[c] = "conc_try"
    /\ IF GateOpen(shared_state.active_requests)
       THEN /\ shared_state' = [shared_state EXCEPT !.active_requests = @ + 1]
            /\ pc' = [pc EXCEPT ![c] = "rec_read"]
            /\ start_wait' = [start_wait EXCEPT ![c] = 0]
            /\ UNCHANGED wake_at
       ELSE /\ pc' = [pc EXCEPT ![c] = "conc_sleep"]
            /\ wake_at' = [wake_at EXCEPT ![c] = now + PollInterval]
            /\ UNCHANGED <<shared_state, start_wait>>
    /\ UNCHANGED <<impl, now, request_lock, current_time, timed_out, last_exit,
                   request_log>>
    /\ UNCHANGED notRL

\* after time.sleep(0.1): wait_time = time.time() - start_wait; past 60 s the
\* caller takes a slot anyway
ConcWake(c) ==
    /\ pc[c] = "conc_sleep"
    /\ now >= wake_at[c]
    /\ IF WaitTimedOut(now - start_wait[c])
       THEN /\ shared_state' = [shared_state EXCEPT !.active_requests = @ + 1]
            /\ timed_out' = [timed_out EXCEPT ![c] = TRUE]
            /\ pc' = [pc EXCEPT ![c] = "rec_read"]
            /\ start_wait' = [start_wait EXCEPT ![c] = 0]
       ELSE /\ pc' = [pc EXCEPT ![c] = "conc_try"]
            /\ UNCHANGED <<shared_state, timed_out, start_wait>>
    /\ wake_at' = [wake_at EXCEPT ![c] = 0]
    /\ UNCHANGED <<impl, now, request_lock, current_time, last_exit, request_log>>
    /\ UNCHANGED notRL

\* acquire_request_slot: current_time = time.time()
RecRead(c) ==
    /\ pc[c] = "rec_read"
    /\ current_time' = [current_time EXCEPT ![c] = now]
    /\ pc' = [pc EXCEPT ![c] = "rec_lock"]
    /\ UNCHANGED <<impl, now, shared_state, request_lock, wake_at, start_wait,
                   timed_out, last_exit, request_log>>
    /\ UNCHANGED notRL

\* acquire_request_slot: the request is recorded under request_lock, then
\* the protected block is entered
Record(c) ==
    /\ pc[c] = "rec_lock"
    /\ request_lock = NoOne
    /\ shared_state' = RecordRequest(shared_state, current_time[c])
    /\ request_log' = Append(request_log, current_time[c])
    /\ current_time' = [current_time EXCEPT ![c] = 0]
    /\ pc' = [pc EXCEPT ![c] = "in_block"]
    /\ UNCHANGED <<impl, now, request_lock, wake_at, start_wait, timed_out, last_exit>>
    /\ UNCHANGED notRL

\* the protected block is left, by return or by an exception
Leave(c) ==
    /\ pc[c] = "in_block"
    /\ \E raised \in BOOLEAN :
         /\ shared_state' = [shared_state EXCEPT
                !.active_requests = SlotAfterExit(@, raised)]
         /\ last_exit' = [last_exit EXCEPT ![c] = IF raised THEN "raise" ELSE "return"]
    /\ pc' = [pc EXCEPT ![c] = "idle"]
    /\ timed_out' = [timed_out EXCEPT ![c] = FALSE]
    /\ UNCHANGED <<impl, now, request_lock, current_time, wake_at, start_wait,
                   request_log>>
    /\ UNCHANGED notRL

\* the limiter's variables while another component is checked
RLParked ==
    /\ impl = "Worker"
    /\ now = StartTime
    /\ shared_state = InitialSharedState
    /\ request_lock = NoOne
    /\ pc = [c \in Callers |-> "idle"]
    /\ current_time = [c \in Callers |-> 0]
    /\ wake_at = [c \in Callers |-> 0]
    /\ start_wait = [c \in Callers |-> 0]
    /\ timed_out = [c \in Callers |-> FALSE]
    /\ last_exit = [c \in Callers |-> "none"]
    /\ request_log = <<>>

RLNext ==
    \/ Tick
    \/ \E c \in Callers :
         \/ Start(c)
         \/ RpmCheck(c)
         \/ RpmWake(c)
         \/ IntRead(c)
         \/ IntCheck(c)
         \/ IntWake(c)
         \/ ConcStart(c)
         \/ ConcTry(c)
         \/ ConcWake(c)
         \/ RecRead(c)
         \/ Record(c)
         \/ Leave(c)

SpecRL == RLInit /\ [][RLNext]_vars

(***************************************************************************)
(* Claims about the rate limiter (checked under SpecRL).                   *)
(***************************************************************************)
InBlock == {c \in Callers : pc[c] = "in_block"}
SlotHolders == {c \in Callers : pc[c] \in Holding}
TimedOutHolders == {c \in SlotHolders : timed_out[c]}

\* C1 (as stated): in every reachable state the number of callers inside the
\* protected block, and the shared counter active_requests, is at most
\* max_concurrent_requests.
C1_GateNeverExceeded ==
    /\ Cardinality(InBlock) <= MaxConcurrentRequests
    /\ shared_state.active_requests <= MaxConcurrentRequests

\* C1 (amended): the callers inside the protected block, and active_requests,
\* exceed max_concurrent_requests by at most the number of current slot
\* holders that entered through the 60 s timeout of the concurrency gate.
C1_GateExceededOnlyByTimeouts ==
    /\ Cardinality(InBlock) <= MaxConcurrentRequests + Cardinality(TimedOutHolders)
    /\ shared_state.active_requests <= MaxConcurrentRequests + Cardinality(TimedOutHolders)

\* C1 witness: a caller that timed out at the gate is inside its block while
\* the gate is over its limit.
C1_Witness ==
    \E c \in Callers :
        /\ pc[c] = "in_block" /\ timed_out[c]
        /\ shared_state.active_requests = MaxConcurrentRequests + 1

\* C2 (as stated): the number of requests recorded within one counting window
\* (since the last reset of minute_start_time) never exceeds
\* requests_per_minute.
C2_WindowWithinRpm ==
    shared_state.requests_this_minute <= RequestsPerMinute

\* C3 (as stated): any two requests recorded by acquire_request_slot have
\* timestamps at least min_request_interval apart.
C3_RequestsSpaced ==
    \A i, j \in 1..Len(request_log) :
        i < j => \/ request_log[j] - request_log[i] >= MinRequestInterval
                 \/ request_log[i] - request_log[j] >= MinRequestInterval

\* C4: every acquisition that reserved a slot releases it exactly once when
\* its block is left, by return or by exception: active_requests is the
\* number of callers between their reservation and their exit, and it is 0
\* once every caller has left.
C4_SlotReleasedOnEveryExit ==
    shared_state.active_requests = Cardinality(SlotHolders)

\* C4 witness: all callers have left, one of them by an exception, after two
\* acquisitions; the counter is back to 0.
C4_Witness ==
    /\ \A c \in Callers : pc[c] = "idle"
    /\ \E c \in Callers : last_exit[c] = "raise"
    /\ Len(request_log) >= 2
    /\ shared_state.active_requests = 0

(***************************************************************************)
(* Progress of the rate limiter (specification SpecRLFair): the clock      *)
(* advances and every caller that has begun an acquisition keeps running;  *)
(* nothing makes a caller begin one, and nothing makes a slot holder leave *)
(* its block (it may have crashed or hang there).                          *)
(***************************************************************************)
\* the steps of an acquisition between its beginning and the protected block
AcquireStep(c) ==
    \/ RpmCheck(c)
    \/ RpmWake(c)
    \/ IntRead(c)
    \/ IntCheck(c)
    \/ IntWake(c)
    \/ ConcStart(c)
    \/ ConcTry(c)
    \/ ConcWake(c)
    \/ RecRead(c)
    \/ Record(c)

SpecRLFair ==
    /\ SpecRL
    /\ WF_vars(Tick)
    /\ \A c \in Callers : WF_vars(AcquireStep(c))

\* the caller has been in the spin-wait of the concurrency gate for more
\* than ConcurrentTimeout and its time.sleep(0.1) is over
WaitedOut(c) ==
    /\ pc[c] = "conc_sleep"
    /\ now >= wake_at[c]
    /\ now - start_wait[c] > ConcurrentTimeout

\* the model's clock has reached its last value
ClockStopped == ~ENABLED Tick

\* the caller is past the gate and waits for request_lock, whose holder is
\* in a time.sleep that the last value of the model's clock does not end
LockHeldPastClock(c) ==
    /\ ClockStopped
    /\ pc[c] = "rec_lock"
    /\ \E d \in Callers \ {c} :
          /\ request_lock = d
          /\ pc[d] \in {"rpm_sleep", "int_sleep"}
          /\ now < wake_at[d]

\* C20: a caller that has been blocked at the concurrency gate for more than
\* 60 s eventually enters its protected block, whether or not the slot
\* holders ever release: the spin-wait is bounded and the caller takes a
\* slot anyway. (The clock of the model is finite: a behaviour in which it
\* ends while the holder of request_lock sleeps is followed no further.)
C20_BlockedCallerEventuallyEnters ==
    \A c \in Callers :
        WaitedOut(c) ~> (pc[c] = "in_block" \/ LockHeldPastClock(c))

\* C20 witness: a caller is inside its block after its spin-wait timed out,
\* while the other caller still holds the only slot and has not released it.
C20_Witness ==
    \E c \in Callers :
        /\ pc[c] = "in_block" /\ timed_out[c]
        /\ \E d \in Callers \ {c} : pc[d] = "in_block" /\ ~timed_out[d]
        /\ shared_state.active_requests > MaxConcurrentRequests

(***************************************************************************)
(* One caller in a loop on a SharedRateLimiter with min_request_interval   *)
(* = 0 (specification SpecBurst): the limiter is created at StartTime, the *)
(* caller begins after an idle time, and then acquires back to back; time  *)
(* passes in the sleep of the RPM gate and, by at most one clock step, as  *)
(* the caller leaves a block. request_log holds the times at which the     *)
(* protected blocks were entered.                                          *)
(***************************************************************************)
\* the longest time between the creation of the limiter and the first
\* acquisition
MaxIdle == 601
\* the longest oversleep of time.sleep, and the longest time from one
\* acquisition to the next
MaxDrift == 1

BurstCaller == "w1"

\* acquire_request_slot from the concurrency gate on, for a lone caller: the
\* slot is free, the request is recorded and the block is entered
BurstEnter(st, t) ==
    [RecordRequest(st, t) EXCEPT !.active_requests = @ + 1]

BurstInit ==
    /\ impl = "Shared"
    /\ now = StartTime
    /\ shared_state = InitialSharedState
    /\ request_lock = NoOne
    /\ pc = [c \in Callers |-> "idle"]
    /\ current_time = [c \in Callers |-> 0]
    /\ wake_at = [c \in Callers |-> 0]
    /\ start_wait = [c \in Callers |-> 0]
    /\ timed_out = [c \in Callers |-> FALSE]
    /\ last_exit = [c \in Callers |-> "none"]
    /\ request_log = <<>>
    /\ CacheParked
    /\ BackupParked
    /\ TaskParked
    /\ BatchParked
    /\ ExecParked
    /\ AggParked
    /\ ShareParked
    /\ RetryParked
    /\ LateParked

\* the caller does something else before its first acquisition
BurstIdle ==
    /\ pc[BurstCaller] = "idle"
    /\ request_log = <<>>
    /\ now = StartTime
    /\ \E d \in 1..MaxIdle : now' = now + d
    /\ UNCHANGED <<impl, shared_state, request_lock, pc, current_time, wake_at,
                   start_wait, timed_out, last_exit, request_log>>
    /\ UNCHANGED notRL

\* acquire_request_slot: the RPM gate; without a wait the interval gate
\* (time_since_last < 0 is never true) and the concurrency gate let the
\* caller through and the block is entered
BurstAcquire ==
    /\ pc[BurstCaller] = "idle"
    /\ Len(request_log) < RequestsPerMinute + 1
    /\ LET st == ResetMinuteCounter(shared_state, now)
           w == RpmWaitTime(st, now)
       IN IF w > 0
          THEN /\ shared_state' = st
               /\ pc' = [pc EXCEPT ![BurstCaller] = "rpm_sleep"]
               /\ wake_at' = [wake_at EXCEPT ![BurstCaller] = now + w]
               /\ UNCHANGED request_log
          ELSE /\ shared_state' = BurstEnter(st, now)
               /\ request_log' = Append(request_log, now)
               /\ pc' = [pc EXCEPT ![BurstCaller] = "in_block"]
               /\ UNCHANGED wake_at
    /\ UNCHANGED <<impl, now, request_lock, current_time, start_wait, timed_out,
                   last_exit>>
    /\ UNCHANGED notRL

\* time.sleep(wait_time) of the RPM gate ends, the window is reset, and the
\* caller goes on through the other gates into its block
BurstWake ==
    /\ pc[BurstCaller] = "rpm_sleep"
    /\ \E over \in 0..MaxDrift :
         LET t == wake_at[BurstCaller] + over
             st == [ResetMinuteCounter(shared_state, t) EXCEPT
                       !.requests_this_minute = 0, !.minute_start_time = t]
         IN /\ now' = t
            /\ shared_state' = BurstEnter(st, t)
            /\ request_log' = Append(request_log, t)
    /\ pc' = [pc EXCEPT ![BurstCaller] = "in_block"]
    /\ wake_at' = [wake_at EXCEPT ![BurstCaller] = 0]
    /\ UNCHANGED <<impl, request_lock, current_time, start_wait, timed_out, last_exit>>
    /\ UNCHANGED notRL

\* the block is left at once and the finally clause releases the slot
BurstLeave ==
    /\ pc[BurstCaller] = "in_block"
    /\ \E d \in 0..MaxDrift : now' = now + d
    /\ shared_state' = [shared_state EXCEPT
           !.active_requests = SlotAfterExit(@, FALSE)]
    /\ pc' = [pc EXCEPT ![BurstCaller] = "idle"]
    /\ last_exit' = [last_exit EXCEPT ![BurstCaller] = "return"]
    /\ UNCHANGED <<impl, request_lock, current_time, wake_at, start_wait, timed_out,
                   request_log>>
    /\ UNCHANGED notRL

BurstNext ==
    \/ BurstIdle
    \/ BurstAcquire
    \/ BurstWake
    \/ BurstLeave

SpecBurst == BurstInit /\ [][BurstNext]_vars

\* C21 (as stated): a single caller that acquires requests_per_minute + 1
\* times back to back on a SharedRateLimiter with min_request_interval = 0
\* enters its (requests_per_minute + 1)-th block at least 60 s after it
\* entered the first, whenever the limiter was created.
C21_BurstTakesAMinute ==
    Len(request_log) >= RequestsPerMinute + 1
        => request_log[RequestsPerMinute + 1] - request_log[1] >= Minute

\* a limiter used from its creation on: the burst does take a minute
BurstOnFreshLimiter ==
    /\ Len(request_log) >= RequestsPerMinute + 1
    /\ request_log[1] = StartTime
    => request_log[RequestsPerMinute + 1] - request_log[1] >= Minute

(***************************************************************************)
(* SharedEmbeddingCache (specification SpecCache): one process puts, gets, *)
(* backs up and is restarted on the same cache file.                       *)
(* A word is a sequence of characters; an embedding is a sequence of       *)
(* numbers of the pipeline's dimension.                                    *)
(***************************************************************************)
\* bounds
EmbeddingDim == 2
MaxPuts == 2
MaxBatch == 2

Vec(a) == [i \in 1..EmbeddingDim |-> a + i]
Vectors == {Vec(0), Vec(5)}
\* the words put, and the words asked for
PutWords == {<<"C", "a", "t">>, <<" ", "c", "a", "t", " ">>}
CacheWords == PutWords \cup {<<"d", "o", "g">>}

\* str.lower(), character by character
LowerChar(ch) ==
    CASE ch = "A" -> "a"
      [] ch = "C" -> "c"
      [] ch = "D" -> "d"
      [] ch = "S" -> "s"
      [] OTHER -> ch

Lower(w) == [i \in 1..Len(w) |-> LowerChar(w[i])]

IsSpace(ch) == ch = " "

\* str.strip()
RECURSIVE LStrip(_)
LStrip(w) == IF w # <<>> /\ IsSpace(Head(w)) THEN LStrip(Tail(w)) ELSE w

RECURSIVE RStrip(_)
RStrip(w) ==
    IF w # <<>> /\ IsSpace(w[Len(w)]) THEN RStrip(SubSeq(w, 1, Len(w) - 1)) ELSE w

Strip(w) == LStrip(RStrip(w))

\* _normalize_key
NormalizeKey(word) == Strip(Lower(word))

\* a mutant of PutKey: the word is stored under its raw form
PutKeyRaw(word) == word

\* the key put and put_batch store under
PutKey(word) == NormalizeKey(word)

\* a mutant of LoadedKey: the row is stored under its raw word
LoadedKeyRaw(word) == word

\* the key _load_from_csv stores a row under
LoadedKey(word) == NormalizeKey(word)

\* shared_cache[key] = entry: a dict keeps the place of a key it has
CacheSet(cache, entry) ==
    IF \E i \in 1..Len(cache) : cache[i].key = entry.key
    THEN [i \in 1..Len(cache) |-> IF cache[i].key = entry.key THEN entry ELSE cache[i]]
    ELSE Append(cache, entry)

\* shared_cache.get(key)
CacheLookup(cache, key) ==
    IF \E i \in 1..Len(cache) : cache[i].key = key
    THEN Some((CHOOSE i \in 1..Len(cache) : cache[i].key = key))
    ELSE None

\* get(word): the entry's embedding, or None
CacheGet(cache, word) ==
    LET hit == CacheLookup(cache, NormalizeKey(word))
    IN IF hit.some THEN Some(cache[hit.val].embedding) ELSE None

\* put(word, embedding)
CachePut(cache, word, embedding) ==
    CacheSet(cache, [key |-> PutKey(word), word |-> word, embedding |-> embedding])

\* put_batch(embeddings)
RECURSIVE CachePutBatch(_, _)
CachePutBatch(cache, batch) ==
    IF batch = <<>> THEN cache
    ELSE CachePutBatch(CachePut(cache, Head(batch).word, Head(batch).embedding),
                       Tail(batch))

\* ---- the CSV file ----
\* a cell of a row: str(value), or the empty string of a missing column
NumCell(x) == <<"num", x>>
EmptyCell == <<"">>

\* csv.DictWriter.writerow: the row's cells under the header's columns; a
\* dimension beyond the header's raises ValueError
RowFits(dim, entry) == Len(entry.embedding) <= dim
CsvRow(dim, entry) ==
    [word |-> entry.word,
     cells |-> [i \in 1..dim |-> IF i <= Len(entry.embedding)
                                  THEN NumCell(entry.embedding[i]) ELSE EmptyCell]]

\* the header: embedding_dim_1 .. embedding_dim_N, N from the first entry
CsvDim(snapshot) == Len(snapshot[1].embedding)

\* the text backup_to_csv writes for a snapshot
CsvText(snapshot) ==
    [exists |-> TRUE, dim |-> CsvDim(snapshot),
     rows |-> [i \in 1..Len(snapshot) |-> CsvRow(CsvDim(snapshot), snapshot[i])]]

\* backup_to_csv, start to end: an empty cache is skipped; the snapshot is
\* written to the temporary file, which then replaces the cache file; when a
\* row raises, the temporary file is removed and the cache file stays
BackupFile(cache, file) ==
    IF cache = <<>> THEN file
    ELSE IF \A i \in 1..Len(cache) : RowFits(CsvDim(cache), cache[i])
         THEN CsvText(cache)
         ELSE file

\* float(value) of a cell: the empty string raises ValueError
CellParses(cell) == cell[1] = "num"
ParseFloat(cell) == cell[2]

\* _load_from_csv, one row: a row that raises, or has no embedding, is skipped
LoadRow(cache, row) ==
    IF \A i \in 1..Len(row.cells) : CellParses(row.cells[i])
    THEN IF Len(row.cells) = 0 THEN cache
         ELSE CacheSet(cache, [key |-> LoadedKey(row.word), word |-> row.word,
                               embedding |-> [i \in 1..Len(row.cells) |->
                                                ParseFloat(row.cells[i])]])
    ELSE cache

RECURSIVE LoadRows(_, _)
LoadRows(cache, rows) ==
    IF rows = <<>> THEN cache ELSE LoadRows(LoadRow(cache, Head(rows)), Tail(rows))

\* _load_from_csv into the empty cache of __init__
LoadFromCsv(file) == IF file.exists THEN LoadRows(<<>>, file.rows) ELSE <<>>

\* the cache files a run may find: none, or an earlier run's snapshot
EarlierFiles ==
    {NoFile, CsvText(<<[key |-> <<"d", "o", "g">>, word |-> <<"d", "o", "g">>,
                        embedding |-> Vec(5)]>>)}

PutRecords == [word : PutWords, embedding : Vectors]
Batches == UNION {[1..n -> PutRecords] : n \in 1..MaxBatch}

CacheInit ==
    /\ cache_file \in EarlierFiles
    /\ shared_cache = LoadFromCsv(cache_file)
    /\ loaded = shared_cache
    /\ got = None
    /\ put_log = <<>>
    /\ puts_at_backup = <<>>
    /\ restored = <<>>
    /\ RLParked
    /\ BackupParked
    /\ TaskParked
    /\ BatchParked
    /\ ExecParked
    /\ AggParked
    /\ ShareParked
    /\ RetryParked
    /\ LateParked

Put ==
    /\ Len(put_log) < MaxPuts
    /\ \E r \in PutRecords :
         /\ shared_cache' = CachePut(shared_cache, r.word, r.embedding)
         /\ put_log' = Append(put_log, r)
    /\ restored' = <<>>
    /\ UNCHANGED <<cache_file, got, loaded, puts_at_backup>>
    /\ UNCHANGED notCache

PutBatch ==
    /\ \E b \in Batches :
         /\ Len(put_log) + Len(b) <= MaxPuts
         /\ shared_cache' = CachePutBatch(shared_cache, b)
         /\ put_log' = put_log \o b
    /\ restored' = <<>>
    /\ UNCHANGED <<cache_file, got, loaded, puts_at_backup>>
    /\ UNCHANGED notCache

Get ==
    /\ \E w \in CacheWords :
         got' = [word |-> w, result |-> CacheGet(shared_cache, w)]
    /\ UNCHANGED <<shared_cache, cache_file, put_log, loaded, puts_at_backup, restored>>
    /\ UNCHANGED notCache

\* clear()
Clear ==
    /\ shared_cache # <<>>
    /\ shared_cache' = <<>>
    /\ put_log' = <<>>
    /\ loaded' = <<>>
    /\ puts_at_backup' = <<>>
    /\ restored' = <<>>
    /\ UNCHANGED <<cache_file, got>>
    /\ UNCHANGED notCache

\* backup_to_csv() with no other writer of the file
BackupToCsv ==
    /\ cache_file' = BackupFile(shared_cache, cache_file)
    /\ puts_at_backup' = put_log
    /\ UNCHANGED <<shared_cache, got, put_log, loaded, restored>>
    /\ UNCHANGED notCache

\* the process ends and a fresh SharedEmbeddingCache is constructed on the
\* same cache file
Restart ==
    /\ shared_cache' = LoadFromCsv(cache_file)
    /\ loaded' = shared_cache'
    /\ restored' = IF puts_at_backup = put_log THEN put_log ELSE <<>>
    /\ put_log' = <<>>
    /\ puts_at_backup' = <<>>
    /\ got' = None
    /\ UNCHANGED cache_file
    /\ UNCHANGED notCache

CacheNext ==
    \/ Put
    \/ PutBatch
    \/ Get
    \/ Clear
    \/ BackupToCsv
    \/ Restart

SpecCache == CacheInit /\ [][CacheNext]_vars

(***************************************************************************)
(* Claims about the embedding cache (checked under SpecCache).             *)
(***************************************************************************)
\* "lowercased, trimmed", stated on positions: the characters between the
\* first and the last one that is not a space, in lower case
NonSpaceAt(w) == {i \in 1..Len(w) : w[i] # " "}
FirstIn(S) == CHOOSE i \in S : \A j \in S : i <= j
LastIn(S) == CHOOSE i \in S : \A j \in S : j <= i
TrimmedLower(w) ==
    IF NonSpaceAt(w) = {} THEN <<>>
    ELSE [i \in 1..(LastIn(NonSpaceAt(w)) - FirstIn(NonSpaceAt(w)) + 1) |->
            LowerChar(w[FirstIn(NonSpaceAt(w)) + i - 1])]
SameKey(w1, w2) == TrimmedLower(w1) = TrimmedLower(w2)

\* the puts of a log whose word has the key of w
PutsOf(log, w) == {i \in 1..Len(log) : SameKey(log[i].word, w)}

\* what the cache held for w when it was constructed
LoadedFor(w) ==
    IF \E i \in 1..Len(loaded) : SameKey(loaded[i].word, w)
    THEN Some(loaded[CHOOSE i \in 1..Len(loaded) : SameKey(loaded[i].word, w)].embedding)
    ELSE None

MaxBackups == 3
\* files that exist at once: cache file, temporary files
MaxInodes == 3

\* who runs backup_to_csv: _cleanup_resources, backup_worker
Executors == {"main", "thread"}

\* what the workers put in the shared cache during a run
WorkerRecords ==
    {[word |-> <<"C", "a", "t">>, embedding |-> Vec(0)],
     [word |-> <<"d", "o", "g">>, embedding |-> Vec(5)]}

\* a file is a sequence of lines: the header, then one line per row; a write
\* past the end of a file leaves a hole before it
HeaderLine(dim) == <<"header", dim>>
RowLine(row) == <<"row", row>>
Hole == <<"hole">>

\* writeheader, then writerow of every entry of the snapshot
CsvLines(snapshot) ==
    <<HeaderLine(CsvDim(snapshot))>> \o
    [i \in 1..Len(snapshot) |-> RowLine(CsvRow(CsvDim(snapshot), snapshot[i]))]

\* csv.DictReader over a file's lines
FileOfLines(lines) ==
    [exists |-> TRUE, dim |-> lines[1][2],
     rows |-> [i \in 1..(Len(lines) - 1) |-> lines[i + 1][2]]]

\* f.write of one line at a file position
WriteAt(content, p, line) ==
    IF p <= Len(content) THEN [content EXCEPT ![p] = line]
    ELSE content \o [i \in 1..(p - Len(content) - 1) |-> Hole] \o <<line>>

\* the inodes no path and no open file refers to
Referenced(tmp, cache, b) == {tmp, cache} \cup {b[e].fd : e \in Executors}
FreeInodes(tmp, cache, b) == (1..MaxInodes) \ Referenced(tmp, cache, b)
NewInode(tmp, cache, b) ==
    CHOOSE n \in FreeInodes(tmp, cache, b) : \A m \in FreeInodes(tmp, cache, b) : n <= m

\* the file system frees an inode with no path and no open file
Collect(ino, tmp, cache, b) ==
    [i \in 1..MaxInodes |-> IF i \in Referenced(tmp, cache, b) THEN ino[i] ELSE <<>>]

\* no backup_to_csv running
IdleBackup == [pc |-> "idle", snapshot |-> <<>>, fd |-> 0, pos |-> 0]

\* shutdown has begun: a signal, or _cleanup_resources
ShutdownBegun ==
    shutdown_requested \/ main_pc \in {"cleanup", "join", "final", "backup", "done"}

\* backup_to_csv returns to its caller: _cleanup_resources ends, and with it
\* process_themes; backup_worker goes round its loop
BackupReturns(e) ==
    /\ main_pc' = IF e = "main" THEN "done" ELSE main_pc
    /\ thread_pc' = IF e = "thread" THEN "loop" ELSE thread_pc

BackupInit ==
    /\ main_pc = "start"
    /\ thread_pc = "none"
    /\ shutdown_requested = FALSE
    /\ fs_tmp = 0
    /\ bk = [e \in Executors |-> IdleBackup]
    /\ backups_begun = 0
    /\ shutdown_backups = 0
    /\ shared_cache = <<>>
    /\ \E file \in EarlierFiles :
          /\ cache_file = file
          /\ fs_cache = IF file.exists THEN 1 ELSE 0
          /\ inodes = [i \in 1..MaxInodes |->
                         IF file.exists /\ i = 1
                         THEN CsvLines(LoadFromCsv(file)) ELSE <<>>]
          /\ history = IF file.exists THEN {LoadFromCsv(file)} ELSE {}
    /\ got = None
    /\ put_log = <<>>
    /\ loaded = <<>>
    /\ puts_at_backup = <<>>
    /\ restored = <<>>
    /\ RLParked
    /\ TaskParked
    /\ BatchParked
    /\ ExecParked
    /\ AggParked
    /\ ShareParked
    /\ RetryParked
    /\ LateParked

\* SIGINT / SIGTERM: _signal_handler
Signal ==
    /\ main_pc # "done"
    /\ ~shutdown_requested
    /\ shutdown_requested' = TRUE
    /\ UNCHANGED <<main_pc, thread_pc, fs_tmp, fs_cache, inodes, bk, history,
                   backups_begun, shutdown_backups, shared_cache>>
    /\ UNCHANGED notBackup

\* _initialize_shared_resources: the cache is created and loads the cache
\* file; a later resource may raise, and process_themes goes to its finally
InitializeSharedResources ==
    /\ main_pc = "start"
    /\ shared_cache' = IF fs_cache = 0 THEN <<>>
                       ELSE LoadFromCsv(FileOfLines(inodes[fs_cache]))
    /\ history' = history \cup {shared_cache'}
    /\ \E raised \in BOOLEAN : main_pc' = IF raised THEN "cleanup" ELSE "starting"
    /\ UNCHANGED <<thread_pc, shutdown_requested, fs_tmp, fs_cache, inodes, bk,
                   backups_begun, shutdown_backups>>
    /\ UNCHANGED notBackup

\* _start_csv_backup_thread
StartCsvBackupThread ==
    /\ main_pc = "starting"
    /\ thread_pc' = "loop"
    /\ main_pc' = "processing"
    /\ UNCHANGED <<shutdown_requested, fs_tmp, fs_cache, inodes, bk, history,
                   backups_begun, shutdown_backups, shared_cache>>
    /\ UNCHANGED notBackup

\* a worker process puts an embedding in the shared cache
WorkerPut ==
    /\ main_pc = "processing"
    /\ \E r \in WorkerRecords : shared_cache' = CachePut(shared_cache, r.word, r.embedding)
    /\ history' = history \cup {shared_cache'}
    /\ UNCHANGED <<main_pc, thread_pc, shutdown_requested, fs_tmp, fs_cache, inodes,
                   bk, backups_begun, shutdown_backups>>
    /\ UNCHANGED notBackup

\* the body of process_themes ends: it returns, it raises, or the executor
\* loop breaks on shutdown_requested
ProcessingEnds ==
    /\ main_pc = "processing"
    /\ main_pc' = "cleanup"
    /\ UNCHANGED <<thread_pc, shutdown_requested, fs_tmp, fs_cache, inodes, bk,
                   history, backups_begun, shutdown_backups, shared_cache>>
    /\ UNCHANGED notBackup

\* _cleanup_resources: a backup thread that is alive is told to stop
CleanupStopThread ==
    /\ main_pc = "cleanup"
    /\ IF thread_pc \notin {"none", "exited"}
       THEN /\ shutdown_requested' = TRUE
            /\ main_pc' = "join"
       ELSE /\ main_pc' = "final"
            /\ UNCHANGED shutdown_requested
    /\ UNCHANGED <<thread_pc, fs_tmp, fs_cache, inodes, bk, history,
                   backups_begun, shutdown_backups, shared_cache>>
    /\ UNCHANGED notBackup

\* csv_backup_thread.join(timeout=5) returns: the thread has ended, or five
\* seconds have passed with the thread in time.sleep(60) or in backup_to_csv
JoinReturns ==
    /\ main_pc = "join"
    /\ thread_pc \in {"exited", "sleep", "backup"}
    /\ main_pc' = "final"
    /\ UNCHANGED <<thread_pc, shutdown_requested, fs_tmp, fs_cache, inodes, bk,
                   history, backups_begun, shutdown_backups, shared_cache>>
    /\ UNCHANGED notBackup

\* backup_worker: while not self.shutdown_requested, then time.sleep(60)
ThreadLoop ==
    /\ thread_pc = "loop"
    /\ shutdown_requested \/ backups_begun < MaxBackups
    /\ thread_pc' = IF shutdown_requested THEN "exited" ELSE "sleep"
    /\ UNCHANGED <<main_pc, shutdown_requested, fs_tmp, fs_cache, inodes, bk,
                   history, backups_begun, shutdown_backups, shared_cache>>
    /\ UNCHANGED notBackup

\* backup_worker: the sleep ends; if not self.shutdown_requested
ThreadCheck ==
    /\ thread_pc = "sleep"
    /\ thread_pc' = IF shutdown_requested THEN "loop" ELSE "call"
    /\ UNCHANGED <<main_pc, shutdown_requested, fs_tmp, fs_cache, inodes, bk,
                   history, backups_begun, shutdown_backups, shared_cache>>
    /\ UNCHANGED notBackup

\* backup_to_csv is called: an empty cache returns at once, else the cache
\* is copied
BackupBegin(e) ==
    /\ \/ e = "main" /\ main_pc = "final"
       \/ e = "thread" /\ thread_pc = "call"
    /\ backups_begun' = backups_begun + 1
    /\ shutdown_backups' = shutdown_backups + (IF ShutdownBegun THEN 1 ELSE 0)
    /\ IF shared_cache = <<>>
       THEN /\ BackupReturns(e)
            /\ UNCHANGED bk
       ELSE /\ bk' = [bk EXCEPT ![e] = [pc |-> "open", snapshot |-> shared_cache,
                                        fd |-> 0, pos |-> 0]]
            /\ main_pc' = IF e = "main" THEN "backup" ELSE main_pc
            /\ thread_pc' = IF e = "thread" THEN "backup" ELSE thread_pc
    /\ UNCHANGED <<shutdown_requested, fs_tmp, fs_cache, inodes, history, shared_cache>>
    /\ UNCHANGED notBackup

\* open(temp_file, 'w'): the file at the temporary path is created, or cut
\* to nothing when it is there
BackupOpen(e) ==
    /\ bk[e].pc = "open"
    /\ IF fs_tmp = 0
       THEN /\ fs_tmp' = NewInode(fs_tmp, fs_cache, bk)
            /\ UNCHANGED inodes
       ELSE /\ inodes' = [inodes EXCEPT ![fs_tmp] = <<>>]
            /\ UNCHANGED fs_tmp
    /\ bk' = [bk EXCEPT ![e].pc = "write", ![e].fd = fs_tmp', ![e].pos = 0]
    /\ UNCHANGED <<main_pc, thread_pc, shutdown_requested, fs_cache, history,
                   backups_begun, shutdown_backups, shared_cache>>
    /\ UNCHANGED notBackup

\* writeheader / writerow: the next line goes to the open file; a row wider
\* than the header raises, and the with block closes the file
BackupWrite(e) ==
    /\ bk[e].pc = "write"
    /\ bk[e].pos < Len(CsvLines(bk[e].snapshot))
    /\ IF bk[e].pos >= 1 /\ ~RowFits(CsvDim(bk[e].snapshot), bk[e].snapshot[bk[e].pos])
       THEN /\ bk' = [bk EXCEPT ![e].pc = "except", ![e].fd = 0]
            /\ inodes' = Collect(inodes, fs_tmp, fs_cache, bk')
       ELSE /\ inodes' = [inodes EXCEPT ![bk[e].fd] =
                            WriteAt(@, bk[e].pos + 1, CsvLines(bk[e].snapshot)[bk[e].pos + 1])]
            /\ bk' = [bk EXCEPT ![e].pos = @ + 1]
    /\ UNCHANGED <<main_pc, thread_pc, shutdown_requested, fs_tmp, fs_cache, history,
                   backups_begun, shutdown_backups, shared_cache>>
    /\ UNCHANGED notBackup

\* the with block ends: the file is closed
BackupClose(e) ==
    /\ bk[e].pc = "write"
    /\ bk[e].pos = Len(CsvLines(bk[e].snapshot))
    /\ bk' = [bk EXCEPT ![e].pc = "replace", ![e].fd = 0]
    /\ inodes' = Collect(inodes, fs_tmp, fs_cache, bk')
    /\ UNCHANGED <<main_pc, thread_pc, shutdown_requested, fs_tmp, fs_cache, history,
                   backups_begun, shutdown_backups, shared_cache>>
    /\ UNCHANGED notBackup

\* temp_file.replace(self.cache_file): the temporary file takes the cache
\* file's path; with no temporary file it raises FileNotFoundError
BackupReplace(e) ==
    /\ bk[e].pc = "replace"
    /\ IF fs_tmp = 0
       THEN /\ bk' = [bk EXCEPT ![e].pc = "except"]
            /\ UNCHANGED <<main_pc, thread_pc, fs_tmp, fs_cache, inodes>>
       ELSE /\ fs_cache' = fs_tmp
            /\ fs_tmp' = 0
            /\ bk' = [bk EXCEPT ![e] = IdleBackup]
            /\ inodes' = Collect(inodes, fs_tmp', fs_cache', bk')
            /\ BackupReturns(e)
    /\ UNCHANGED <<shutdown_requested, history, backups_begun, shutdown_backups,
                   shared_cache>>
    /\ UNCHANGED notBackup

\* except Exception: the temporary file is removed if it exists
BackupExcept(e) ==
    /\ bk[e].pc = "except"
    /\ fs_tmp' = 0
    /\ bk' = [bk EXCEPT ![e] = IdleBackup]
    /\ inodes' = Collect(inodes, fs_tmp', fs_cache, bk')
    /\ BackupReturns(e)
    /\ UNCHANGED <<shutdown_requested, fs_cache, history, backups_begun,
                   shutdown_backups, shared_cache>>
    /\ UNCHANGED notBackup

BackupNext ==
    \/ Signal
    \/ InitializeSharedResources
    \/ StartCsvBackupThread
    \/ WorkerPut
    \/ ProcessingEnds
    \/ CleanupStopThread
    \/ JoinReturns
    \/ ThreadLoop
    \/ ThreadCheck
    \/ \E e \in Executors :
          \/ BackupBegin(e)
          \/ BackupOpen(e)
          \/ BackupWrite(e)
          \/ BackupClose(e)
          \/ BackupReplace(e)
          \/ BackupExcept(e)

SpecBackup == BackupInit /\ [][BackupNext]_vars

\* C7: the cache file is absent, or it holds the header and every row of one
\* state the in-memory cache has had
C7_CacheFileAlwaysComplete ==
    \/ fs_cache = 0
    \/ \E s \in history : s # <<>> /\ inodes[fs_cache] = CsvLines(s)

\* C8: when process_themes has ended, backup_to_csv has been called exactly
\* once since shutdown began, the periodic thread's calls included
C8_OneBackupDuringShutdown ==
    main_pc = "done" => shutdown_backups = 1

(***************************************************************************)
(* ImprovedThemeWorker.process_task, with the embedding provider           *)
(***************************************************************************)
\* the longest candidate list
MaxCandidates == 4
\* config['puzzle_generation']['words_per_theme']
WordsPerTheme == 2
\* similarities are kept in hundredths
SimilarityScale == 100

\* the words of the tasks
WordCat == <<"C", "a", "t">>
WordCatLower == <<"c", "a", "t">>
WordCats == <<"c", "a", "t", "s">>
WordDog == <<"d", "o", "g">>
WordS == <<"s">>
WordBlank == <<" ">>
WordPet == <<"p", "e", "t">>

\* the candidates of the tasks whose whole processing is followed, and of the
\* tasks followed through deduplication only
TaskWords == {WordCat, WordCats, WordDog, WordS, WordBlank}
DedupWords == TaskWords \cup {WordCatLower}
Themes == {WordPet, WordBlank}
CandidateLists == UNION {[1..n -> TaskWords] : n \in 0..MaxCandidates}
DedupLists == UNION {[1..n -> DedupWords] : n \in 0..MaxCandidates}

\* the embedding the API gives for a text: one vector per text
ApiPair(text) ==
    CASE text = WordPet -> <<5, 0>>
      [] text = WordCat -> <<4, 3>>
      [] text = WordCatLower -> <<3, 4>>
      [] text = WordCats -> <<0, 5>>
      [] text = WordDog -> <<4, -3>>
      [] text = WordS -> <<-3, 4>>
      [] OTHER -> <<-5, 0>>
ApiVector(text) ==
    [i \in 1..EmbeddingDim |-> IF i <= 2 THEN ApiPair(text)[i] ELSE 0]

\* _normalize_key of the worker
WorkerNormalizeKey(word) == Strip(Lower(word))

\* word_lower.endswith('s')
EndsWithS(w) == Len(w) > 0 /\ w[Len(w)] = "s"

\* _is_duplicate_word: the first element of the tuple it returns
IsDuplicateWord(word, processed) ==
    LET word_lower == WorkerNormalizeKey(word)
    IN \/ word_lower \in processed
       \/ /\ EndsWithS(word_lower)
          /\ Len(word_lower) > 1
          /\ SubSeq(word_lower, 1, Len(word_lower) - 1) \in processed
       \/ Append(word_lower, "s") \in processed

\* _cosine_similarity, in hundredths
Dot(a, b) ==
    LET RECURSIVE DotTo(_)
        DotTo(i) == IF i = 0 THEN 0 ELSE a[i] * b[i] + DotTo(i - 1)
    IN DotTo(Len(a))
Isqrt(n) == CHOOSE r \in 0..n : r * r <= n /\ n < (r + 1) * (r + 1)
CosineSimilarity(a, b) ==
    IF Dot(a, a) = 0 \/ Dot(b, b) = 0 THEN 0
    ELSE (SimilarityScale * Dot(a, b)) \div (Isqrt(Dot(a, a)) * Isqrt(Dot(b, b)))

\* generate_embeddings: "not text or not text.strip()"
IsBlank(text) == Strip(text) = <<>>

\* generate_embeddings: the texts sent to the API; the provider of a worker
\* has no cache file, so its own embedding_cache stays empty
RECURSIVE ProviderTexts(_)
ProviderTexts(texts) ==
    IF texts = <<>> THEN <<>>
    ELSE (IF IsBlank(Head(texts)) THEN <<>> ELSE <<Head(texts)>>)
         \o ProviderTexts(Tail(texts))

\* generate_embeddings: the loop that merges cached results and batch results
RECURSIVE MergeResults(_, _)
MergeResults(cache_results, batch_embeddings) ==
    IF cache_results = <<>> THEN <<>>
    ELSE IF Head(cache_results) # None
         THEN <<Head(cache_results)>> \o MergeResults(Tail(cache_results), batch_embeddings)
         ELSE IF batch_embeddings # <<>>
              THEN <<Head(batch_embeddings)>>
                   \o MergeResults(Tail(cache_results), Tail(batch_embeddings))
              ELSE <<None>> \o MergeResults(Tail(cache_results), batch_embeddings)

\* generate_embeddings(texts), given the embeddings of the API's response
GenerateEmbeddings(texts, batch_embeddings) ==
    LET cache_results == [i \in 1..Len(texts) |-> None]
    IN IF ProviderTexts(texts) = <<>> THEN cache_results
       ELSE MergeResults(cache_results, batch_embeddings)

\* the responses of the API to the texts sent: an embedding each, at most
\* one of them an invalid embedding object
ApiResponses(sent) ==
    {[j \in 1..Len(sent) |-> IF j = invalid THEN None ELSE Some(ApiVector(sent[j]))] :
        invalid \in 0..Len(sent)}

\* _get_embedding_from_cache
WorkerCacheGet(cache, text) ==
    LET hit == CacheLookup(cache, WorkerNormalizeKey(text))
    IN IF hit.some THEN Some(cache[hit.val].embedding) ELSE None

\* _put_embedding_in_cache
WorkerCachePut(cache, word, embedding) ==
    CacheSet(cache, [key |-> WorkerNormalizeKey(word), word |-> word,
                     embedding |-> embedding])

\* _get_embeddings_with_cache: the indices of the texts the cache misses
RECURSIVE MissesFrom(_, _)
MissesFrom(cached, i) ==
    IF i > Len(cached) THEN <<>>
    ELSE (IF cached[i] = None THEN <<i>> ELSE <<>>) \o MissesFrom(cached, i + 1)

\* _get_embeddings_with_cache: the API's results merged into the cached ones,
\* and each new embedding put in the shared cache
RECURSIVE MergeApi(_, _, _, _, _)
MergeApi(cached, cache, texts, indices, api_embeddings) ==
    IF indices = <<>> THEN [embeddings |-> cached, cache |-> cache]
    ELSE IF api_embeddings # <<>> /\ Head(api_embeddings) # None
         THEN MergeApi([cached EXCEPT ![Head(indices)] = Head(api_embeddings)],
                       WorkerCachePut(cache, texts[Head(indices)], Head(api_embeddings).val),
                       texts, Tail(indices),
                       Tail(api_embeddings))
         ELSE MergeApi(cached, cache, texts, Tail(indices),
                       IF api_embeddings = <<>> THEN <<>> ELSE Tail(api_embeddings))

\* a lone caller of acquire_request_slot enters its block once the RPM wait
\* and the interval wait are over
EnterTime(st, t) ==
    LET t1 == t + RpmWaitTime(ResetMinuteCounter(st, t), t)
    IN t1 + IntervalWaitTime(ResetMinuteCounter(ResetMinuteCounter(st, t), t1), t1)

\* an acquire_request_slot block entered at t and left, by a lone caller
AcquireAlone(st, t, raised) ==
    LET entered == [RecordRequest(ResetMinuteCounter(st, t), t)
                       EXCEPT !.active_requests = @ + 1]
    IN [entered EXCEPT !.active_requests = SlotAfterExit(@, raised)]

\* "if not embedding": None, or an empty list
Falsy(e) == ~e.some \/ e.val = <<>>

\* word_results.sort(key=lambda x: x[2], reverse=True): a stable sort
InsertBySimilarity(sorted, r) ==
    LET before == Cardinality({i \in 1..Len(sorted) : sorted[i].similarity >= r.similarity})
    IN SubSeq(sorted, 1, before) \o <<r>> \o SubSeq(sorted, before + 1, Len(sorted))
RECURSIVE SortBySimilarity(_)
SortBySimilarity(word_results) ==
    IF word_results = <<>> THEN <<>>
    ELSE InsertBySimilarity(SortBySimilarity(SubSeq(word_results, 1, Len(word_results) - 1)),
                            word_results[Len(word_results)])

\* ThemeProcessingResult.create_error_result
CreateErrorResult(task_id, theme, error_message) ==
    [task_id |-> task_id, theme |-> theme, success |-> FALSE, error_message |-> error_message, theme_embedding |-> None,
     selected_words |-> <<>>, word_embeddings |-> <<>>, similarities |-> <<>>,
     api_calls_made |-> 0, cache_hits |-> 0, cache_misses |-> 0]

\* the decimal digits, as characters
DigitChars == <<"0", "1", "2", "3", "4", "5", "6", "7", "8", "9">>
DigitChar(d) == DigitChars[d + 1]

\* str(n) of a natural number
RECURSIVE Digits(_)
Digits(n) == IF n < 10 THEN <<DigitChar(n)>> ELSE Digits(n \div 10) \o <<DigitChar(n % 10)>>

\* the format 02d
Format02d(n) == IF n < 10 THEN <<"0">> \o Digits(n) ELSE Digits(n)

\* task_id: p{puzzle_id:02d}_t{theme_idx}_{theme}
TaskId(puzzle, index, theme) ==
    <<"p">> \o Format02d(puzzle) \o <<"_", "t">> \o Digits(index) \o <<"_">> \o theme

\* the shared cache a task may find: empty, or holding an earlier embedding
InitialCaches ==
    {<<>>, <<[key |-> WordDog, word |-> WordDog, embedding |-> ApiVector(WordDog)]>>}

\* process_task is entered with a task
TaskEntered(tasks, caches) ==
    /\ task \in tasks
    /\ task_pc = "dedup"
    /\ next_word = 1
    /\ processed_words = {}
    /\ unique_words = <<>>
    /\ kept_at = <<>>
    /\ cached_embeddings = <<>>
    /\ texts_to_generate = <<>>
    /\ text_indices = <<>>
    /\ api_calls = 0
    /\ result = None
    /\ shared_cache \in caches
    /\ cache_file = NoFile
    /\ got = None
    /\ put_log = <<>>
    /\ loaded = <<>>
    /\ puts_at_backup = <<>>
    /\ restored = <<>>
    /\ RLParked
    /\ BackupParked
    /\ BatchParked
    /\ ExecParked
    /\ AggParked
    /\ ShareParked
    /\ RetryParked
    /\ LateParked

TaskInit ==
    TaskEntered({[task_id |-> TaskId(1, 0, theme), theme |-> theme, candidates |-> candidates] :
                    theme \in Themes, candidates \in CandidateLists},
                InitialCaches)

DedupInit ==
    TaskEntered({[task_id |-> TaskId(1, 0, WordPet), theme |-> WordPet, candidates |-> candidates] :
                    candidates \in DedupLists}, {<<>>})

\* process_task: one round of the loop that filters out duplicate words
DedupWord ==
    /\ task_pc = "dedup"
    /\ next_word <= Len(task.candidates)
    /\ LET word == task.candidates[next_word]
       IN IF IsDuplicateWord(word, processed_words)
          THEN UNCHANGED <<processed_words, unique_words, kept_at>>
          ELSE /\ processed_words' = processed_words \cup {WorkerNormalizeKey(word)}
               /\ unique_words' = Append(unique_words, word)
               /\ kept_at' = Append(kept_at, next_word)
    /\ next_word' = next_word + 1
    /\ UNCHANGED <<task, task_pc, cached_embeddings, texts_to_generate, text_indices,
                   api_calls, result, shared_cache, shared_state, now>>
    /\ UNCHANGED notTask
    /\ UNCHANGED batchVars

\* process_task after the loop: too few unique words fail the task; else
\* _get_embeddings_with_cache looks every text of the batch up in the cache
LookupBatch ==
    /\ task_pc = "dedup"
    /\ next_word > Len(task.candidates)
    /\ IF Len(unique_words) < WordsPerTheme
       THEN /\ result' = Some(CreateErrorResult(task.task_id, task.theme, "Not enough unique candidates"))
            /\ task_pc' = "done"
            /\ UNCHANGED <<cached_embeddings, texts_to_generate, text_indices>>
       ELSE LET batch_texts == <<task.theme>> \o unique_words
                cached == [i \in 1..Len(batch_texts) |->
                             WorkerCacheGet(shared_cache, batch_texts[i])]
                indices == MissesFrom(cached, 1)
            IN /\ cached_embeddings' = cached
               /\ text_indices' = indices
               /\ texts_to_generate' = [j \in 1..Len(indices) |-> batch_texts[indices[j]]]
               /\ task_pc' = IF indices = <<>> THEN "rank" ELSE "api"
               /\ UNCHANGED result
    /\ UNCHANGED <<task, next_word, processed_words, unique_words, kept_at, api_calls,
                   shared_cache, shared_state, now>>
    /\ UNCHANGED notTask
    /\ UNCHANGED batchVars

\* _get_embeddings_with_cache: generate_embeddings under the rate limiter.
\* The API answers, and the results are merged and cached; or the provider
\* ends the process with sys.exit(1); or the block raises an Exception, which
\* is logged and leaves the missing embeddings None
CallProvider ==
    /\ task_pc = "api"
    /\ LET batch_texts == <<task.theme>> \o unique_words
           sent == ProviderTexts(texts_to_generate)
       IN \/ \E response \in ApiResponses(sent) :
                LET merged == MergeApi(cached_embeddings, shared_cache, batch_texts,
                                       text_indices,
                                       GenerateEmbeddings(texts_to_generate, response))
                IN /\ cached_embeddings' = merged.embeddings
                   /\ shared_cache' = merged.cache
                   /\ now' = EnterTime(shared_state, now)
                   /\ shared_state' = AcquireAlone(shared_state, now', FALSE)
                   /\ api_calls' = 1
                   /\ task_pc' = "rank"
          \/ /\ sent # <<>>
             /\ now' = EnterTime(shared_state, now)
             /\ shared_state' = AcquireAlone(shared_state, now', TRUE)
             /\ task_pc' = "exited"
             /\ UNCHANGED <<cached_embeddings, shared_cache, api_calls>>
          \/ /\ task_pc' = "rank"
             /\ UNCHANGED <<cached_embeddings, shared_cache, shared_state, api_calls, now>>
    /\ UNCHANGED <<task, next_word, processed_words, unique_words, kept_at,
                   texts_to_generate, text_indices, result>>
    /\ UNCHANGED notTask
    /\ UNCHANGED batchVars

\* process_task: the (word, embedding, similarity) of every unique word whose
\* embedding is there, in the order of unique_words
RECURSIVE WordResults(_, _, _)
WordResults(words, embeddings, theme_embedding) ==
    IF words = <<>> THEN <<>>
    ELSE (IF Falsy(Head(embeddings)) THEN <<>>
          ELSE <<[word |-> Head(words), embedding |-> Head(embeddings).val,
                  similarity |-> CosineSimilarity(theme_embedding,
                                                  Head(embeddings).val)]>>)
         \o WordResults(Tail(words), Tail(embeddings), theme_embedding)

\* process_task: the cache is updated with every word that has a similarity
RECURSIVE PutWordResults(_, _)
PutWordResults(cache, word_results) ==
    IF word_results = <<>> THEN cache
    ELSE PutWordResults(WorkerCachePut(cache, Head(word_results).word,
                                       Head(word_results).embedding),
                        Tail(word_results))

\* the test that fails a task with too few embedded words
TooFewSelected(selected_results) == Len(selected_results) < WordsPerTheme

\* process_task from the embeddings on: the checks, the similarities, the
\* sort, the selection and the result
RankAndSelect ==
    /\ task_pc = "rank"
    /\ LET batch_texts == <<task.theme>> \o unique_words
           batch_embeddings == cached_embeddings
           theme_embedding == batch_embeddings[1]
       IN IF batch_embeddings = <<>> \/ Len(batch_embeddings) # Len(batch_texts)
          THEN /\ result' = Some(CreateErrorResult(task.task_id, task.theme, "Failed to generate embeddings"))
               /\ UNCHANGED shared_cache
          ELSE IF Falsy(theme_embedding)
          THEN /\ result' = Some(CreateErrorResult(task.task_id, task.theme, "Failed to generate embedding for theme"))
               /\ UNCHANGED shared_cache
          ELSE LET word_results == WordResults(unique_words, Tail(batch_embeddings),
                                               theme_embedding.val)
                   sorted == SortBySimilarity(word_results)
                   selected_results == SubSeq(sorted, 1, IF Len(sorted) < WordsPerTheme
                                                         THEN Len(sorted) ELSE WordsPerTheme)
                   n == Len(selected_results)
               IN IF TooFewSelected(selected_results)
                  THEN /\ result' = Some(CreateErrorResult(task.task_id, task.theme, "Not enough valid words after embedding"))
                       /\ shared_cache' = PutWordResults(shared_cache, word_results)
                  ELSE /\ result' = Some(
                            [task_id |-> task.task_id, theme |-> task.theme,
                             success |-> TRUE, error_message |-> "",
                             theme_embedding |-> theme_embedding,
                             selected_words |-> [i \in 1..n |-> selected_results[i].word],
                             word_embeddings |->
                                 [i \in 1..n |-> selected_results[i].embedding],
                             similarities |->
                                 [i \in 1..n |-> selected_results[i].similarity],
                             api_calls_made |-> api_calls,
                             cache_hits |-> Len(batch_texts) - Len(text_indices),
                             cache_misses |-> Cardinality(
                                 {i \in 1..Len(batch_embeddings) :
                                     batch_embeddings[i] = None})])
                       /\ shared_cache' = WorkerCachePut(
                                              PutWordResults(shared_cache, word_results),
                                              task.theme, theme_embedding.val)
    /\ task_pc' = "done"
    /\ UNCHANGED <<task, next_word, processed_words, unique_words, kept_at,
                   cached_embeddings, texts_to_generate, text_indices, api_calls,
                   shared_state, now>>
    /\ UNCHANGED notTask
    /\ UNCHANGED batchVars

TaskNext ==
    \/ DedupWord
    \/ LookupBatch
    \/ CallProvider
    \/ RankAndSelect

SpecTask == TaskInit /\ [][TaskNext]_vars

\* the deduplication loop of process_task alone
DedupNext == DedupWord

SpecDedup == DedupInit /\ [][DedupNext]_vars

\* two normalized forms are duplicates: equal, or one is the other plus a
\* trailing "s"
Related(a, b) == a = b \/ a = Append(b, "s") \/ b = Append(a, "s")

KeptIndices == {kept_at[j] : j \in 1..Len(kept_at)}

\* C9: the kept words are a subsequence of the candidates, in their order and
\* casing; a candidate is dropped iff its normalized form is a duplicate of
\* the normalized form of an earlier kept candidate; and of
\* ["Cat", "cat", "cats", "dog"] exactly ["Cat", "dog"] is kept
C9_DedupKeepsFirstSeen ==
    /\ \A j \in 1..(Len(kept_at) - 1) : kept_at[j] < kept_at[j + 1]
    /\ unique_words = [j \in 1..Len(kept_at) |-> task.candidates[kept_at[j]]]
    /\ \A i \in 1..(next_word - 1) :
          (i \notin KeptIndices) <=>
          (\E k \in KeptIndices :
              /\ k < i
              /\ Related(TrimmedLower(task.candidates[i]),
                         TrimmedLower(task.candidates[k])))
    /\ (/\ task.candidates = <<WordCat, WordCatLower, WordCats, WordDog>>
        /\ next_word > Len(task.candidates))
       => unique_words = <<WordCat, WordDog>>

\* the embedding held for a text is the embedding of that text
ValidFor(text, e) == e.some /\ e.val = ApiVector(text)

\* the unique candidates that have a valid embedding
ValidCandidates ==
    {i \in 1..Len(unique_words) : ValidFor(unique_words[i], cached_embeddings[i + 1])}

\* C10: process_task returns success = false and a non-empty error_message
\* when fewer than words_per_theme unique candidates remain, or the theme has
\* no valid embedding, or fewer than words_per_theme unique candidates have
\* one; in every other case it returns success = true
C10_FailsExactlyWhenTooFew ==
    task_pc = "done" =>
        IF \/ Len(unique_words) < WordsPerTheme
           \/ ~ValidFor(task.theme, cached_embeddings[1])
           \/ Cardinality(ValidCandidates) < WordsPerTheme
        THEN result.some /\ ~result.val.success /\ result.val.error_message # ""
        ELSE result.some /\ result.val.success

\* the words of a successful result
SelectedWords == {result.val.selected_words[i] : i \in 1..Len(result.val.selected_words)}

\* C11: on success selected_words, word_embeddings and similarities have
\* length words_per_theme each; similarities do not increase; the embedding
\* and the similarity at a position are those of the word at that position;
\* no unique candidate with a valid embedding that was left out is more
\* similar to the theme than a selected word
C11_SelectionIsTopRanked ==
    (task_pc = "done" /\ result.some /\ result.val.success) =>
        LET r == result.val
        IN /\ Len(r.selected_words) = WordsPerTheme
           /\ Len(r.word_embeddings) = WordsPerTheme
           /\ Len(r.similarities) = WordsPerTheme
           /\ \A i \in 1..(Len(r.similarities) - 1) :
                 r.similarities[i] >= r.similarities[i + 1]
           /\ \A i \in 1..Len(r.selected_words) :
                 /\ r.word_embeddings[i] = ApiVector(r.selected_words[i])
                 /\ r.similarities[i] =
                       CosineSimilarity(ApiVector(task.theme), r.word_embeddings[i])
           /\ \A j \in ValidCandidates :
                 unique_words[j] \notin SelectedWords =>
                    \A i \in 1..Len(r.similarities) :
                       CosineSimilarity(ApiVector(task.theme), ApiVector(unique_words[j]))
                          <= r.similarities[i]

(***************************************************************************)
(* process_theme_batch_worker: one worker call on a batch of tasks         *)
(***************************************************************************)
\* the longest batch
MaxBatchTasks == 2

\* the themes and candidates of the tasks of a batch
BatchShapes ==
    {[theme |-> WordPet, candidates |-> <<WordCat, WordDog, WordS>>],
     [theme |-> WordPet, candidates |-> <<WordCat, WordCats>>],
     [theme |-> WordPet, candidates |-> <<WordDog, WordCat, WordCats, WordS>>]}

\* the batches: each task has the id of its position
TaskBatches ==
    UNION {{[i \in 1..n |-> [task_id |-> TaskId(1, i - 1, shapes[i].theme), theme |-> shapes[i].theme,
                              candidates |-> shapes[i].candidates]] :
               shapes \in [1..n -> BatchShapes]} : n \in 0..MaxBatchTasks}

\* worker.process_task(task) is entered
EnterTask(t) ==
    /\ task' = t
    /\ task_pc' = "dedup"
    /\ next_word' = 1
    /\ processed_words' = {}
    /\ unique_words' = <<>>
    /\ kept_at' = <<>>
    /\ cached_embeddings' = <<>>
    /\ texts_to_generate' = <<>>
    /\ text_indices' = <<>>
    /\ api_calls' = 0
    /\ result' = None

\* a mutant of AfterTask: the loop ends at the first failed result
AfterTaskStopOnFailure(results, tasks) ==
    IF /\ Len(results) < Len(tasks)
       /\ (Len(results) = 0 \/ results[Len(results)].success)
    THEN "loop" ELSE "returned"

\* for task in tasks: the loop goes on while tasks are left
AfterTask(results, tasks) ==
    IF Len(results) < Len(tasks) THEN "loop" ELSE "returned"

BatchInit ==
    /\ batch_tasks \in TaskBatches
    /\ batch_pc = "start"
    /\ batch_results = <<>>
    /\ TaskParked
    /\ shared_cache = <<>>
    /\ cache_file = NoFile
    /\ got = None
    /\ put_log = <<>>
    /\ loaded = <<>>
    /\ puts_at_backup = <<>>
    /\ restored = <<>>
    /\ RLParked
    /\ BackupParked
    /\ ExecParked
    /\ AggParked
    /\ ShareParked
    /\ RetryParked
    /\ LateParked

\* process_theme_batch_worker: the worker is created; when that raises, every
\* task gets an error result; else the loop over the tasks begins
WorkerStarts ==
    /\ batch_pc = "start"
    /\ \E raised \in BOOLEAN :
          IF raised
          THEN /\ batch_results' =
                     [i \in 1..Len(batch_tasks) |->
                         CreateErrorResult(batch_tasks[i].task_id, batch_tasks[i].theme,
                                           "Worker error")]
               /\ batch_pc' = "returned"
               /\ UNCHANGED taskVars
          ELSE /\ batch_results' = <<>>
               /\ batch_pc' = AfterTask(<<>>, batch_tasks)
               /\ IF batch_tasks = <<>> THEN UNCHANGED taskVars
                  ELSE EnterTask(batch_tasks[1])
    /\ UNCHANGED <<batch_tasks, shared_cache, shared_state, now>>
    /\ UNCHANGED notBatch

\* result = worker.process_task(task); results.append(result); then the
\* next task, or return results
TaskReturns ==
    /\ batch_pc = "loop"
    /\ task_pc = "done"
    /\ batch_results' = Append(batch_results, result.val)
    /\ batch_pc' = AfterTask(batch_results', batch_tasks)
    /\ IF batch_pc' = "loop"
       THEN EnterTask(batch_tasks[Len(batch_results') + 1])
       ELSE UNCHANGED taskVars
    /\ UNCHANGED <<batch_tasks, shared_cache, shared_state, now>>
    /\ UNCHANGED notBatch

\* sys.exit(1) in the provider: SystemExit is no Exception, and leaves
\* process_task and process_theme_batch_worker
WorkerExits ==
    /\ batch_pc = "loop"
    /\ task_pc = "exited"
    /\ batch_pc' = "died"
    /\ UNCHANGED <<batch_tasks, batch_results, taskVars, shared_cache, shared_state, now>>
    /\ UNCHANGED notBatch

BatchNext ==
    \/ WorkerStarts
    \/ DedupWord
    \/ LookupBatch
    \/ CallProvider
    \/ RankAndSelect
    \/ TaskReturns
    \/ WorkerExits

SpecBatch == BatchInit /\ [][BatchNext]_vars

\* C12: a worker call that returns gives one result per task, in task order,
\* with the task's task_id and theme; while the loop runs, the task after the
\* last result, failed or not, is being processed; the worker is lost only
\* to the provider's fatal exit, never to a failed result
C12_OneResultPerTask ==
    /\ batch_pc = "returned" =>
          /\ Len(batch_results) = Len(batch_tasks)
          /\ \A i \in 1..Len(batch_tasks) :
                /\ batch_results[i].task_id = batch_tasks[i].task_id
                /\ batch_results[i].theme = batch_tasks[i].theme
    /\ batch_pc = "loop" =>
          /\ Len(batch_results) < Len(batch_tasks)
          /\ task = batch_tasks[Len(batch_results) + 1]
    /\ batch_pc = "died" => task_pc = "exited" /\ result = None

\* a batch has returned whose first task failed and whose second succeeded
C12_Witness ==
    /\ batch_pc = "returned"
    /\ Len(batch_results) = 2
    /\ ~batch_results[1].success
    /\ batch_results[2].success

(***************************************************************************)
(* ImprovedGeminiTaskProcessor._process_tasks_with_executor                *)
(***************************************************************************)
\* tasks handed to _process_tasks_with_executor
MaxExecTasks == 3
\* multiprocessing.tasks_per_batch
TasksPerBatch == 2
\* multiprocessing.worker_count
WorkerCount == 1

\* the task lists process_themes passes on: never empty
ExecTaskLists ==
    {[i \in 1..n |-> [task_id |-> TaskId(1, i - 1, WordPet), theme |-> WordPet]] : n \in 1..MaxExecTasks}

\* _create_task_batches: slices of tasks_per_batch tasks, the last one shorter
CreateTaskBatches(task_list, per_batch) ==
    LET count == (Len(task_list) + per_batch - 1) \div per_batch
    IN [b \in 1..count |->
           SubSeq(task_list, (b - 1) * per_batch + 1,
                  IF b * per_batch <= Len(task_list) THEN b * per_batch ELSE Len(task_list))]

\* a future: not created yet, queued in the executor, running in a worker, or
\* done with a result or with an exception; "hung" is a worker that never returns
NoFuture == [state |-> "none", results |-> <<>>]
FutureIn(state) == [state |-> state, results |-> <<>>]
DoneStates == {"finished", "broken", "exited"}
Submitted == {b \in DOMAIN futures : futures[b].state # "none"}
Done == {b \in DOMAIN futures : futures[b].state \in DoneStates}
InWorker == {b \in DOMAIN futures : futures[b].state \in {"running", "hung"}}
PoolBroken == \E b \in DOMAIN futures : futures[b].state = "broken"

\* what process_theme_batch_worker returns for a batch: one result per task
WorkerReturns(batch) ==
    {[i \in 1..Len(batch) |->
         IF ok[i]
         THEN [task_id |-> batch[i].task_id, theme |-> batch[i].theme, success |-> TRUE,
               error_message |-> ""]
         ELSE [task_id |-> batch[i].task_id, theme |-> batch[i].theme, success |-> FALSE,
               error_message |-> "Too few embeddings"]] : ok \in [1..Len(batch) -> BOOLEAN]}

\* the error results the collection loop creates for a whole batch
BatchErrorResults(batch, error_message) ==
    [i \in 1..Len(batch) |->
        [task_id |-> batch[i].task_id, theme |-> batch[i].theme, success |-> FALSE,
         error_message |-> error_message]]

\* _process_tasks_with_executor is entered from process_themes
ExecInit ==
    /\ exec_pc = "submit"
    /\ \E task_list \in ExecTaskLists :
          task_batches = CreateTaskBatches(task_list, TasksPerBatch)
    /\ futures = [b \in DOMAIN task_batches |-> NoFuture]
    /\ yielded = {}
    /\ done_at_call = {}
    /\ all_results = <<>>
    /\ exec_error = "none"
    /\ main_pc = "processing"
    /\ thread_pc = "none"
    /\ shutdown_requested = FALSE
    /\ fs_tmp = 0
    /\ fs_cache = 0
    /\ inodes = <<>>
    /\ bk = <<>>
    /\ history = {}
    /\ backups_begun = 0
    /\ shutdown_backups = 0
    /\ CacheParked
    /\ RLParked
    /\ TaskParked
    /\ BatchParked
    /\ AggParked
    /\ ShareParked
    /\ RetryParked
    /\ LateParked

\* the submission loop: one iteration, or its end; executor.submit raises
\* BrokenProcessPool once a worker process has died
Submit ==
    /\ exec_pc = "submit"
    /\ LET b == Cardinality(Submitted) + 1
       IN IF shutdown_requested \/ b > Len(task_batches)
          THEN /\ exec_pc' = "collect"
               /\ done_at_call' = Done
               /\ UNCHANGED <<futures, exec_error>>
          ELSE IF PoolBroken
          THEN /\ exec_pc' = "exit"
               /\ exec_error' = "BrokenProcessPool"
               /\ UNCHANGED <<futures, done_at_call>>
          ELSE /\ futures' = [futures EXCEPT ![b] = FutureIn("pending")]
               /\ UNCHANGED <<exec_pc, exec_error, done_at_call>>
    /\ UNCHANGED <<task_batches, yielded, all_results>>
    /\ UNCHANGED notExec

\* the executor hands the oldest queued batch to a free worker process
WorkerStart(b) ==
    /\ b \in DOMAIN futures
    /\ futures[b].state = "pending"
    /\ \A a \in 1..(b - 1) : futures[a].state # "pending"
    /\ Cardinality(InWorker) < WorkerCount
    /\ futures' = [futures EXCEPT ![b] = FutureIn("running")]
    /\ UNCHANGED <<exec_pc, task_batches, yielded, done_at_call, all_results, exec_error>>
    /\ UNCHANGED notExec

\* process_theme_batch_worker returns its results
WorkerFinishes(b) ==
    /\ b \in DOMAIN futures
    /\ futures[b].state = "running"
    /\ \E returned \in WorkerReturns(task_batches[b]) :
          futures' = [futures EXCEPT ![b] = [state |-> "finished", results |-> returned]]
    /\ UNCHANGED <<exec_pc, task_batches, yielded, done_at_call, all_results, exec_error>>
    /\ UNCHANGED notExec

\* the provider's sys.exit in the worker: the pool sends SystemExit back as
\* the exception of the future
WorkerSystemExit(b) ==
    /\ b \in DOMAIN futures
    /\ futures[b].state = "running"
    /\ futures' = [futures EXCEPT ![b] = FutureIn("exited")]
    /\ UNCHANGED <<exec_pc, task_batches, yielded, done_at_call, all_results, exec_error>>
    /\ UNCHANGED notExec

\* a worker process dies: the pool is broken, and every future that is not
\* done gets BrokenProcessPool
WorkerDies(b) ==
    /\ b \in DOMAIN futures
    /\ futures[b].state = "running"
    /\ futures' = [a \in DOMAIN futures |->
                      IF futures[a].state \in {"pending", "running", "hung"}
                      THEN FutureIn("broken") ELSE futures[a]]
    /\ UNCHANGED <<exec_pc, task_batches, yielded, done_at_call, all_results, exec_error>>
    /\ UNCHANGED notExec

\* a worker blocks for good inside a task
WorkerHangs(b) ==
    /\ b \in DOMAIN futures
    /\ futures[b].state = "running"
    /\ futures' = [futures EXCEPT ![b] = FutureIn("hung")]
    /\ UNCHANGED <<exec_pc, task_batches, yielded, done_at_call, all_results, exec_error>>
    /\ UNCHANGED notExec

\* one iteration of the collection loop: as_completed yields a done future;
\* future.result(timeout=30) answers at once, with the results or by raising
CollectResult(b) ==
    /\ exec_pc = "collect"
    /\ b \in Done \ yielded
    /\ yielded' = yielded \cup {b}
    /\ IF shutdown_requested
       THEN /\ exec_pc' = "exit"
            /\ UNCHANGED <<all_results, exec_error>>
       ELSE CASE futures[b].state = "finished" ->
                   /\ all_results' = all_results \o futures[b].results
                   /\ UNCHANGED <<exec_pc, exec_error>>
              [] futures[b].state = "broken" ->
                   /\ all_results' = all_results \o
                         BatchErrorResults(task_batches[b], "Processing error")
                   /\ UNCHANGED <<exec_pc, exec_error>>
              [] futures[b].state = "exited" ->
                   /\ exec_pc' = "exit"
                   /\ exec_error' = "SystemExit"
                   /\ UNCHANGED all_results
    /\ UNCHANGED <<task_batches, futures, done_at_call>>
    /\ UNCHANGED notExec

\* as_completed has yielded every future: the loop ends
CollectEnds ==
    /\ exec_pc = "collect"
    /\ Submitted \subseteq yielded
    /\ exec_pc' = "exit"
    /\ UNCHANGED <<task_batches, futures, yielded, done_at_call, all_results, exec_error>>
    /\ UNCHANGED notExec

\* as_completed(timeout=task_timeout): once the futures done at the call are
\* yielded, it raises TimeoutError when the time is up and futures are left;
\* nothing in _process_tasks_with_executor catches it
AsCompletedTimeout ==
    /\ exec_pc = "collect"
    /\ done_at_call \subseteq yielded
    /\ Submitted \ yielded # {}
    /\ exec_pc' = "exit"
    /\ exec_error' = "TimeoutError"
    /\ UNCHANGED <<task_batches, futures, yielded, done_at_call, all_results>>
    /\ UNCHANGED notExec

\* the with block is left: ProcessPoolExecutor.__exit__ is shutdown(wait=True),
\* which returns once every submitted batch has run to its end
ExecutorExit ==
    /\ exec_pc = "exit"
    /\ Submitted \subseteq Done
    /\ exec_pc' = IF exec_error = "none" THEN "returned" ELSE "raised"
    /\ UNCHANGED <<task_batches, futures, yielded, done_at_call, all_results, exec_error>>
    /\ UNCHANGED notExec

WorkerStep ==
    \E b \in DOMAIN futures :
        WorkerFinishes(b) \/ WorkerSystemExit(b) \/ WorkerDies(b) \/ WorkerHangs(b)

ExecNext ==
    \/ Signal
    \/ Submit
    \/ \E b \in DOMAIN futures : WorkerStart(b)
    \/ \E b \in DOMAIN futures : WorkerFinishes(b)
    \/ \E b \in DOMAIN futures : WorkerSystemExit(b)
    \/ \E b \in DOMAIN futures : WorkerDies(b)
    \/ \E b \in DOMAIN futures : WorkerHangs(b)
    \/ \E b \in DOMAIN futures : CollectResult(b)
    \/ CollectEnds
    \/ AsCompletedTimeout
    \/ ExecutorExit

SpecExec == ExecInit /\ [][ExecNext]_vars

\* the main thread runs, the time of as_completed passes, the executor starts
\* queued batches, and a worker that is running a batch goes on: it returns,
\* exits, dies or blocks for good
SpecExecFair ==
    /\ SpecExec
    /\ WF_vars(Submit)
    /\ WF_vars(\E b \in DOMAIN futures : CollectResult(b))
    /\ WF_vars(CollectEnds)
    /\ WF_vars(AsCompletedTimeout)
    /\ WF_vars(ExecutorExit)
    /\ WF_vars(\E b \in DOMAIN futures : WorkerStart(b))
    /\ WF_vars(WorkerStep)

\* every task of batch b has a failed result in all_results
RecordedAsFailed(b) ==
    /\ b \in DOMAIN task_batches
    /\ \A i \in 1..Len(task_batches[b]) :
          \E j \in 1..Len(all_results) :
              /\ all_results[j].task_id = task_batches[b][i].task_id
              /\ ~all_results[j].success

\* the worker of batch b never returns a result: it hangs, or its process died
NeverReturns(b) ==
    /\ b \in DOMAIN futures
    /\ futures[b].state \in {"hung", "broken"}

\* C13: with no shutdown signal, whenever the worker of a batch hangs or its
\* process dies, _process_tasks_with_executor eventually returns, and
\* all_results holds a failed result for each task of the batch
C13_CollectionEndsWithFailedResults ==
    [](~shutdown_requested) =>
        \A b \in 1..MaxExecTasks :
            [](NeverReturns(b) => <>(exec_pc = "returned" /\ RecordedAsFailed(b)))

\* C14: once shutdown_requested is set, a batch that has not begun to run in
\* a worker is not started
C14_NoBatchStartedAfterShutdown ==
    [][\A b \in DOMAIN futures :
          shutdown_requested /\ futures[b].state \in {"none", "pending"}
              => futures'[b].state # "running"]_vars

(***************************************************************************)
(* ResultAggregator                                                        *)
(***************************************************************************)
\* _create_puzzle_from_themes: the number of words a puzzle must have
ExpectedWords == 16
\* the largest puzzle_generation.themes_per_puzzle
MaxThemesPerPuzzle == 2
\* puzzle_generation.total_puzzle_count
TotalPuzzleCount == 2
\* the most successful results that arrive
MaxArrived == 3

\* the configurations: words_per_theme is the worker's, or the one that gives
\* a puzzle of 16 words
AggConfigs ==
    UNION {{[themes_per_puzzle |-> t, words_per_theme |-> w] :
               w \in {WordsPerTheme, ExpectedWords \div t}} : t \in 1..MaxThemesPerPuzzle}

\* the theme of a task; theme names may hold any character
ThemeOf(puzzle, index) == <<"a", "_", "t">> \o Digits(puzzle) \o Digits(index)

\* the tasks the task generator makes: themes_per_puzzle for each puzzle
GeneratedTasks(config) ==
    {[puzzle |-> puzzle, index |-> index] :
        puzzle \in 1..TotalPuzzleCount, index \in 0..(config.themes_per_puzzle - 1)}

\* a successful ThemeProcessingResult with count selected words
SuccessResult(puzzle, index, count) ==
    [task_id |-> TaskId(puzzle, index, ThemeOf(puzzle, index)),
     theme |-> ThemeOf(puzzle, index),
     success |-> TRUE,
     selected_words |-> [k \in 1..count |-> ThemeOf(puzzle, index) \o <<"-">> \o Digits(k)],
     similarities |-> [k \in 1..count |-> SimilarityScale - k]]

\* the orders in which n of the generated tasks, each once, may arrive
ArrivalOrders(config, n) ==
    {order \in [1..n -> GeneratedTasks(config)] :
        \A i, j \in 1..n : i # j => order[i] # order[j]}

\* the failed results of a run: the generated tasks that did not succeed
RECURSIVE FailedOf(_, _)
FailedOf(missing, error_message) ==
    IF missing = {} THEN <<>>
    ELSE LET t == CHOOSE m \in missing :
                     \A o \in missing : <<m.puzzle, m.index>> = <<o.puzzle, o.index>>
                        \/ m.puzzle < o.puzzle
                        \/ (m.puzzle = o.puzzle /\ m.index < o.index)
         IN <<CreateErrorResult(TaskId(t.puzzle, t.index, ThemeOf(t.puzzle, t.index)),
                                ThemeOf(t.puzzle, t.index), error_message)>>
            \o FailedOf(missing \ {t}, error_message)

\* str.split(sep): the parts between the separators, from position k on
RECURSIVE SplitFrom(_, _, _, _)
SplitFrom(text, sep, k, part) ==
    IF k > Len(text) THEN <<part>>
    ELSE IF text[k] = sep THEN <<part>> \o SplitFrom(text, sep, k + 1, <<>>)
    ELSE SplitFrom(text, sep, k + 1, Append(part, text[k]))

SplitOn(text, sep) == SplitFrom(text, sep, 1, <<>>)

\* text[1:]
FromSecond(text) == SubSeq(text, 2, Len(text))

\* sub in text
Contains(text, sub) ==
    \E i \in 1..(Len(text) - Len(sub) + 1) : SubSeq(text, i, i + Len(sub) - 1) = sub

RECURSIVE DigitsValue(_)
DigitsValue(text) ==
    IF text = <<>> THEN 0
    ELSE DigitsValue(SubSeq(text, 1, Len(text) - 1)) * 10
         + (CHOOSE d \in 0..9 : DigitChar(d) = text[Len(text)])

\* int(text) of a text without sign or spaces: ValueError unless all digits
ParseInt(text) ==
    IF text = <<>> \/ \E i \in 1..Len(text) : \A d \in 0..9 : DigitChar(d) # text[i]
    THEN [ok |-> FALSE]
    ELSE [ok |-> TRUE, val |-> DigitsValue(text)]

\* puzzle_groups[puzzle_id].append(result), the groups in insertion order
AddToGroup(puzzle_groups, puzzle_id, r) ==
    IF \E g \in 1..Len(puzzle_groups) : puzzle_groups[g].puzzle_id = puzzle_id
    THEN [g \in 1..Len(puzzle_groups) |->
             IF puzzle_groups[g].puzzle_id = puzzle_id
             THEN [puzzle_groups[g] EXCEPT !.theme_results = Append(@, r)]
             ELSE puzzle_groups[g]]
    ELSE Append(puzzle_groups, [puzzle_id |-> puzzle_id, theme_results |-> <<r>>])

\* the puzzle a result is put in: the number after 'p', or a fallback
PuzzleIdOf(task_id, puzzle_groups, themes_per_puzzle) ==
    IF Len(task_id) > 0 /\ task_id[1] = "p"
    THEN LET parsed == ParseInt(FromSecond(SplitOn(task_id, "_")[1]))
         IN IF parsed.ok THEN parsed.val ELSE Len(puzzle_groups) + 1
    ELSE Len(puzzle_groups) \div themes_per_puzzle + 1

\* _group_results_by_puzzle, from the k-th result on
RECURSIVE GroupFrom(_, _, _, _)
GroupFrom(arrived, k, puzzle_groups, themes_per_puzzle) ==
    IF k > Len(arrived) THEN puzzle_groups
    ELSE GroupFrom(arrived, k + 1,
                   AddToGroup(puzzle_groups,
                              PuzzleIdOf(arrived[k].task_id, puzzle_groups, themes_per_puzzle),
                              arrived[k]),
                   themes_per_puzzle)

GroupResultsByPuzzle(arrived, themes_per_puzzle) ==
    GroupFrom(arrived, 1, <<>>, themes_per_puzzle)

\* the sort key of _create_puzzle_from_themes; a key that raises is not ok
ThemeIndexKey(task_id) ==
    IF Contains(task_id, <<"_", "t">>)
    THEN ParseInt(FromSecond(SplitOn(task_id, "_")[2]))
    ELSE [ok |-> TRUE, val |-> 0]

\* list.sort is stable: a result goes behind the results whose key is not larger
RECURSIVE StableSortFrom(_, _, _)
StableSortFrom(theme_results, k, sorted) ==
    IF k > Len(theme_results) THEN sorted
    ELSE LET r == theme_results[k]
             key == ThemeIndexKey(r.task_id).val
             before == Cardinality({i \in 1..Len(sorted) :
                                       ThemeIndexKey(sorted[i].task_id).val <= key})
         IN StableSortFrom(theme_results, k + 1,
                           SubSeq(sorted, 1, before) \o <<r>>
                           \o SubSeq(sorted, before + 1, Len(sorted)))

\* a mutant of SortByThemeIndex: the results stay in their order of arrival
SortByThemeIndexKeepsArrival(theme_results) == theme_results

\* theme_results.sort(key=...) inside try / except: pass
SortByThemeIndex(theme_results) ==
    IF \E i \in 1..Len(theme_results) : ~ThemeIndexKey(theme_results[i].task_id).ok
    THEN theme_results
    ELSE StableSortFrom(theme_results, 1, <<>>)

RECURSIVE Extend(_, _, _)
Extend(theme_results, k, field) ==
    IF k > Len(theme_results) THEN <<>>
    ELSE theme_results[k][field] \o Extend(theme_results, k + 1, field)

\* _create_puzzle_from_themes: the puzzle, or ValueError
CreatePuzzleFromThemes(puzzle_id, theme_results) ==
    LET sorted == SortByThemeIndex(theme_results)
        all_words == Extend(sorted, 1, "selected_words")
        theme_similarities == Extend(sorted, 1, "similarities")
    IN IF Len(all_words) # ExpectedWords
       THEN [ok |-> FALSE, sorted |-> sorted]
       ELSE [ok |-> TRUE, sorted |-> sorted,
             puzzle |-> [words |-> all_words,
                         theme_similarity_scores |-> theme_similarities,
                         themes |-> [i \in 1..Len(sorted) |-> sorted[i].theme],
                         all_candidates |-> <<>>,
                         all_similarities |-> theme_similarities]]

\* f"puzzle_{puzzle_id}"
PuzzleKey(puzzle_id) == <<"p", "u", "z", "z", "l", "e", "_">> \o Digits(puzzle_id)

ThemesOf(theme_results) == [i \in 1..Len(theme_results) |-> theme_results[i].theme]

\* _create_puzzles_from_groups, from the k-th group on
RECURSIVE CreateFrom(_, _, _, _)
CreateFrom(puzzle_groups, k, config, acc) ==
    IF k > Len(puzzle_groups) THEN acc
    ELSE LET puzzle_id == puzzle_groups[k].puzzle_id
             theme_results == puzzle_groups[k].theme_results
             failed(themes, error) ==
                 [acc EXCEPT !.puzzle_metadata =
                     Append(@, [puzzle_id |-> puzzle_id, themes |-> themes, error |-> error])]
             created == CreatePuzzleFromThemes(puzzle_id, theme_results)
         IN CreateFrom(puzzle_groups, k + 1, config,
              IF Len(theme_results) # config.themes_per_puzzle
              THEN failed(ThemesOf(theme_results), "Incomplete puzzle")
              ELSE IF \E i \in 1..Len(theme_results) :
                         Len(theme_results[i].selected_words) # config.words_per_theme
              THEN failed(ThemesOf(theme_results), "Invalid word counts in themes")
              ELSE IF ~created.ok
              THEN failed(ThemesOf(created.sorted), "Error creating puzzle")
              ELSE [acc EXCEPT !.puzzles =
                       [key \in DOMAIN @ \cup {PuzzleKey(puzzle_id)} |->
                           IF key = PuzzleKey(puzzle_id) THEN created.puzzle ELSE @[key]]])

CreatePuzzlesFromGroups(puzzle_groups, config) ==
    CreateFrom(puzzle_groups, 1, config, [puzzles |-> <<>>, puzzle_metadata |-> <<>>])

\* _generate_embedding_data: the theme and, by rank, each selected word
RECURSIVE GenerateEmbeddingData(_, _)
GenerateEmbeddingData(arrived, k) ==
    IF k > Len(arrived) THEN <<>>
    ELSE LET r == arrived[k]
         IN <<[theme |-> r.theme, word |-> r.theme, word_type |-> "theme",
               similarity_to_theme |-> SimilarityScale, rank |-> 0]>>
            \o [n \in 1..Len(r.selected_words) |->
                   [theme |-> r.theme, word |-> r.selected_words[n],
                    word_type |-> "selected_word",
                    similarity_to_theme |-> r.similarities[n], rank |-> n]]
            \o GenerateEmbeddingData(arrived, k + 1)

\* aggregate_results: results_dict
AggregateResults(arrived, failed, config) ==
    LET created == CreatePuzzlesFromGroups(
                       GroupResultsByPuzzle(arrived, config.themes_per_puzzle), config)
    IN [puzzles |-> created.puzzles,
        metadata |-> [total_themes_needed |-> TotalPuzzleCount * config.themes_per_puzzle,
                      total_themes_available |-> Len(arrived) + Len(failed),
                      successful_puzzles |-> Cardinality(DOMAIN created.puzzles),
                      failed_puzzles |-> created.puzzle_metadata]]

\* process_themes has the results of a run and calls aggregate_results: the
\* successful results are some of the generated tasks, in an order of arrival,
\* with words_per_theme words each, but for at most one that has one fewer
AggInit ==
    /\ agg_pc = "call"
    /\ agg_config \in AggConfigs
    /\ \E n \in 0..MaxArrived :
          \E order \in ArrivalOrders(agg_config, n), short \in 0..n :
              /\ successful_results =
                    [k \in 1..n |-> SuccessResult(order[k].puzzle, order[k].index,
                                                  IF k = short
                                                  THEN agg_config.words_per_theme - 1
                                                  ELSE agg_config.words_per_theme)]
              /\ failed_results =
                    FailedOf(GeneratedTasks(agg_config) \ {order[k] : k \in 1..n},
                             "Too few embeddings")
    /\ results_dict = None
    /\ all_embeddings = <<>>
    /\ RLParked
    /\ CacheParked
    /\ BackupParked
    /\ TaskParked
    /\ BatchParked
    /\ ExecParked
    /\ ShareParked
    /\ RetryParked
    /\ LateParked

Aggregate ==
    /\ agg_pc = "call"
    /\ results_dict' = Some(AggregateResults(successful_results, failed_results, agg_config))
    /\ all_embeddings' = GenerateEmbeddingData(successful_results, 1)
    /\ agg_pc' = "done"
    /\ UNCHANGED <<agg_config, successful_results, failed_results>>
    /\ UNCHANGED notAgg

AggNext == Aggregate

SpecAgg == AggInit /\ [][AggNext]_vars

\* the successful result of a generated task, if it has arrived
ArrivedOf(puzzle, index) ==
    {k \in 1..Len(successful_results) :
        successful_results[k].task_id = TaskId(puzzle, index, ThemeOf(puzzle, index))}

\* the group of a puzzle has themes_per_puzzle successful results, each with
\* words_per_theme selected words
CompleteGroup(puzzle) ==
    \A index \in 0..(agg_config.themes_per_puzzle - 1) :
        \E k \in ArrivedOf(puzzle, index) :
            Len(successful_results[k].selected_words) = agg_config.words_per_theme

InPuzzles(puzzle) == PuzzleKey(puzzle) \in DOMAIN results_dict.val.puzzles

FailedEntries(puzzle) ==
    {k \in 1..Len(results_dict.val.metadata.failed_puzzles) :
        results_dict.val.metadata.failed_puzzles[k].puzzle_id = puzzle}

\* C15: a puzzle group with themes_per_puzzle successful results of
\* words_per_theme words each is in puzzles, with
\* themes_per_puzzle * words_per_theme words
C15_CompleteGroupBecomesPuzzle ==
    agg_pc = "done" =>
        \A puzzle \in 1..TotalPuzzleCount :
            CompleteGroup(puzzle) =>
                /\ InPuzzles(puzzle)
                /\ Len(results_dict.val.puzzles[PuzzleKey(puzzle)].words)
                      = agg_config.themes_per_puzzle * agg_config.words_per_theme

\* C16: every puzzle with generated tasks is in puzzles or, with a reason, in
\* failed_puzzles, never in both and never in neither; a puzzle that misses a
\* theme is in failed_puzzles only
C16_EveryPuzzleAccountedFor ==
    agg_pc = "done" =>
        \A puzzle \in 1..TotalPuzzleCount :
            /\ InPuzzles(puzzle) <=> FailedEntries(puzzle) = {}
            /\ \A k \in FailedEntries(puzzle) :
                  results_dict.val.metadata.failed_puzzles[k].error # ""
            /\ (\E index \in 0..(agg_config.themes_per_puzzle - 1) :
                    ArrivedOf(puzzle, index) = {})
                  => ~InPuzzles(puzzle) /\ FailedEntries(puzzle) # {}

\* the results in the order of their tasks: by puzzle, then by theme index
RECURSIVE InTaskOrder(_)
InTaskOrder(ks) ==
    IF ks = {} THEN <<>>
    ELSE LET first == CHOOSE k \in ks :
                         \A o \in ks :
                             LET a == successful_results[k].task_id
                                 b == successful_results[o].task_id
                             IN \/ k = o
                                \/ PuzzleIdOf(a, <<>>, 1) < PuzzleIdOf(b, <<>>, 1)
                                \/ /\ PuzzleIdOf(a, <<>>, 1) = PuzzleIdOf(b, <<>>, 1)
                                   /\ ThemeIndexKey(a).val < ThemeIndexKey(b).val
         IN <<successful_results[first]>> \o InTaskOrder(ks \ {first})

\* C17: the puzzles built from the results in their order of arrival are the
\* puzzles built from the same results in task order, and the themes of each
\* puzzle are in theme-index order
C17_PuzzlesIndependentOfArrival ==
    agg_pc = "done" =>
        /\ results_dict.val.puzzles
              = AggregateResults(InTaskOrder(1..Len(successful_results)), failed_results,
                                 agg_config).puzzles
        /\ \A puzzle \in 1..TotalPuzzleCount :
              InPuzzles(puzzle) =>
                  results_dict.val.puzzles[PuzzleKey(puzzle)].themes
                     = [i \in 1..agg_config.themes_per_puzzle |-> ThemeOf(puzzle, i - 1)]

\* a puzzle was built from results that arrived against their theme index
C17_Witness ==
    /\ agg_pc = "done"
    /\ \E puzzle \in 1..TotalPuzzleCount :
          /\ InPuzzles(puzzle)
          /\ \E a \in ArrivedOf(puzzle, 0), b \in ArrivedOf(puzzle, 1) : b < a

(***************************************************************************)
(* ImprovedThemeWorker processes sharing one cache                         *)
(***************************************************************************)
\* worker processes
NumShareWorkers == 2
\* the most texts of one _get_embeddings_with_cache call
MaxShareTexts == 2

ShareWorkers == 1..NumShareWorkers

\* the texts of a call: no blank text, no two with the same normalized form
ShareTextLists ==
    UNION {{texts \in [1..n -> {WordCat, WordCatLower, WordDog}] :
               \A i, j \in 1..n :
                   i # j => WorkerNormalizeKey(texts[i]) # WorkerNormalizeKey(texts[j])} :
           n \in 1..MaxShareTexts}

\* each worker is about to call _get_embeddings_with_cache
ShareInit ==
    /\ share_pc = [w \in ShareWorkers |-> "lookup"]
    /\ share_texts \in [ShareWorkers -> ShareTextLists]
    /\ share_cached = [w \in ShareWorkers |-> <<>>]
    /\ share_indices = [w \in ShareWorkers |-> <<>>]
    /\ sent_log = <<>>
    /\ shared_cache \in InitialCaches
    /\ cache_file = NoFile
    /\ got = None
    /\ put_log = <<>>
    /\ loaded = <<>>
    /\ puts_at_backup = <<>>
    /\ restored = <<>>
    /\ RLParked
    /\ BackupParked
    /\ TaskParked
    /\ BatchParked
    /\ ExecParked
    /\ AggParked
    /\ RetryParked
    /\ LateParked

notShare == <<impl, request_lock, pc, current_time, wake_at, start_wait, timed_out,
              last_exit, request_log, cache_file, got, put_log, loaded, puts_at_backup,
              restored, bkVars, taskVars, batchVars, execVars, aggVars, retryVars, lateVars>>

\* _get_embeddings_with_cache: the loop that asks the shared cache for each text
ShareLookup(w) ==
    /\ share_pc[w] = "lookup"
    /\ LET cached == [i \in 1..Len(share_texts[w]) |->
                         WorkerCacheGet(shared_cache, share_texts[w][i])]
           indices == MissesFrom(cached, 1)
       IN /\ share_cached' = [share_cached EXCEPT ![w] = cached]
          /\ share_indices' = [share_indices EXCEPT ![w] = indices]
          /\ share_pc' = [share_pc EXCEPT ![w] = IF indices = <<>> THEN "done" ELSE "api"]
    /\ UNCHANGED <<share_texts, sent_log, shared_cache, shared_state, now>>
    /\ UNCHANGED notShare

\* _get_embeddings_with_cache: the texts the cache missed are sent to the
\* provider under the rate limiter, the API answers every text, and the
\* embeddings are merged and put in the shared cache
ShareCall(w) ==
    /\ share_pc[w] = "api"
    /\ LET texts_missed == [j \in 1..Len(share_indices[w]) |->
                               share_texts[w][share_indices[w][j]]]
           sent == ProviderTexts(texts_missed)
           response == [j \in 1..Len(sent) |-> Some(ApiVector(sent[j]))]
           merged == MergeApi(share_cached[w], shared_cache, share_texts[w],
                              share_indices[w], GenerateEmbeddings(texts_missed, response))
       IN /\ sent_log' = Append(sent_log, [worker |-> w, texts |-> sent])
          /\ share_cached' = [share_cached EXCEPT ![w] = merged.embeddings]
          /\ shared_cache' = merged.cache
    /\ now' = EnterTime(shared_state, now)
    /\ shared_state' = AcquireAlone(shared_state, now', FALSE)
    /\ share_pc' = [share_pc EXCEPT ![w] = "done"]
    /\ UNCHANGED <<share_texts, share_indices>>
    /\ UNCHANGED notShare

ShareNext ==
    \/ \E w \in ShareWorkers : ShareLookup(w)
    \/ \E w \in ShareWorkers : ShareCall(w)

SpecShare == ShareInit /\ [][ShareNext]_vars

\* the places in sent_log where a text with this normalized form was sent
SentAs(key) ==
    {<<c, j>> \in (1..Len(sent_log)) \X (1..MaxShareTexts) :
        j <= Len(sent_log[c].texts) /\ WorkerNormalizeKey(sent_log[c].texts[j]) = key}

\* C18: every normalized text is sent to the provider at most once
C18_EachTextSentAtMostOnce ==
    \A word \in {WordCat, WordCatLower, WordDog} :
        Cardinality(SentAs(WorkerNormalizeKey(word))) <= 1

(***************************************************************************)
(* GeminiEmbeddingProvider.generate_embeddings                             *)
(***************************************************************************)
\* the largest gemini.max_retries
MaxRetries == 3
\* gemini.retry_base_delay
RetryBaseDelay == 1

\* the texts of the call: none of them cached (a worker's provider has no
\* cache file and keeps no cache)
RetryTexts == <<WordCat, WordDog>>

\* what the provider remembers of its earlier requests: none, one a minute
\* old, or one just made
EarlierRequests == {<<>>, <<StartTime - Minute>>, <<StartTime>>}

\* request_times without the requests older than one minute
RECURSIVE DropOld(_, _)
DropOld(times, t) ==
    IF times # <<>> /\ Head(times) < t - Minute THEN DropOld(Tail(times), t) ELSE times

\* _enforce_rpm_limit at time t: the request times and the time afterwards
EnforceRpmLimit(times, t) ==
    LET kept == DropOld(times, t)
        wait_time == IF Len(kept) >= RequestsPerMinute
                     THEN Minute - (t - kept[1]) ELSE 0
        t1 == IF wait_time > 0 THEN t + wait_time ELSE t
    IN [times |-> Append(IF wait_time > 0 THEN DropOld(kept, t1) ELSE kept, t1), now |-> t1]

\* the wait for min_request_interval before the batch request
IntervalSleep(last, t) ==
    IF t - last < MinRequestInterval THEN MinRequestInterval - (t - last) ELSE 0

\* delay = retry_base_delay * (2 ** attempt)
RetryDelay(failed_attempt) == RetryBaseDelay * 2^failed_attempt

\* generate_embeddings is called on a provider that has made earlier requests
RetryInit ==
    /\ retry_pc = "call"
    /\ max_retries \in 0..MaxRetries
    /\ attempt = 0
    /\ outcomes = <<>>
    /\ delays = <<>>
    /\ retry_now \in StartTime..(StartTime + MinRequestInterval)
    /\ request_times \in EarlierRequests
    /\ provider_last = IF request_times = <<>> THEN 0 ELSE request_times[Len(request_times)]
    /\ retry_result = None
    /\ RLParked
    /\ CacheParked
    /\ BackupParked
    /\ TaskParked
    /\ BatchParked
    /\ ExecParked
    /\ AggParked
    /\ ShareParked
    /\ LateParked

notRetry == <<rlVars, cacheVars, bkVars, taskVars, batchVars, execVars, aggVars, shareVars, lateVars>>

\* generate_embeddings up to the retry loop: the provider's own rate limits;
\* with max_retries = 0 the loop has no round and the merge returns None for
\* every text
RetryEnter ==
    /\ retry_pc = "call"
    /\ LET limited == EnforceRpmLimit(request_times, retry_now)
       IN /\ request_times' = limited.times
          /\ retry_now' = limited.now + IntervalSleep(provider_last, limited.now)
    /\ IF max_retries = 0
       THEN /\ retry_pc' = "returned"
            /\ retry_result' = Some(GenerateEmbeddings(RetryTexts, <<>>))
       ELSE /\ retry_pc' = "attempt"
            /\ UNCHANGED retry_result
    /\ UNCHANGED <<max_retries, attempt, outcomes, delays, provider_last>>
    /\ UNCHANGED notRetry

\* the API answers with one embedding object per text (an object may be
\* invalid): the loop is left and the results are merged
AttemptSucceeds ==
    /\ retry_pc = "attempt"
    /\ \E response \in ApiResponses(ProviderTexts(RetryTexts)) :
          retry_result' = Some(GenerateEmbeddings(RetryTexts, response))
    /\ outcomes' = Append(outcomes, "ok")
    /\ provider_last' = retry_now
    /\ retry_pc' = "returned"
    /\ UNCHANGED <<max_retries, attempt, delays, retry_now, request_times>>
    /\ UNCHANGED notRetry

\* the response has the wrong number of embeddings or a wrong dimension:
\* sys.exit(1)
AttemptBadResponse ==
    /\ retry_pc = "attempt"
    /\ outcomes' = Append(outcomes, "invalid")
    /\ retry_pc' = "exited"
    /\ UNCHANGED <<max_retries, attempt, delays, retry_now, request_times, provider_last,
                   retry_result>>
    /\ UNCHANGED notRetry

\* ConnectionError, TimeoutError or OSError: sys.exit(1) on the last round,
\* else the delay is slept and the next round begins
AttemptNetworkError ==
    /\ retry_pc = "attempt"
    /\ outcomes' = Append(outcomes, "network")
    /\ IF attempt = max_retries - 1
       THEN /\ retry_pc' = "exited"
            /\ UNCHANGED <<attempt, delays, retry_now>>
       ELSE /\ delays' = Append(delays, RetryDelay(attempt))
            /\ retry_now' = retry_now + RetryDelay(attempt)
            /\ attempt' = attempt + 1
            /\ UNCHANGED retry_pc
    /\ UNCHANGED <<max_retries, request_times, provider_last, retry_result>>
    /\ UNCHANGED notRetry

\* any other Exception: sys.exit(1) at once
AttemptOtherError ==
    /\ retry_pc = "attempt"
    /\ outcomes' = Append(outcomes, "other")
    /\ retry_pc' = "exited"
    /\ UNCHANGED <<max_retries, attempt, delays, retry_now, request_times, provider_last,
                   retry_result>>
    /\ UNCHANGED notRetry

RetryNext ==
    \/ RetryEnter
    \/ AttemptSucceeds
    \/ AttemptBadResponse
    \/ AttemptNetworkError
    \/ AttemptOtherError

SpecRetry == RetryInit /\ [][RetryNext]_vars

NetworkFailures == Cardinality({k \in 1..Len(outcomes) : outcomes[k] = "network"})

CallEnded == retry_pc \in {"returned", "exited"}

\* at most max_retries attempts; an attempt follows only a network failure
\* and its delay, retry_base_delay * 2^k after the attempt of loop index k;
\* a failure that is not of the network class ends the call in a fatal exit
RetryDiscipline ==
    /\ Len(outcomes) <= max_retries
    /\ \A k \in 1..Len(outcomes) : k < Len(outcomes) => outcomes[k] = "network"
    /\ \A k \in 1..Len(delays) : delays[k] = RetryBaseDelay * 2^(k - 1)
    /\ retry_pc = "attempt" => Len(delays) = Len(outcomes)
    /\ CallEnded => Len(delays) = Max(Len(outcomes) - 1, 0)
    /\ CallEnded /\ outcomes # <<>> /\ outcomes[Len(outcomes)] \in {"other", "invalid"}
          => retry_pc = "exited"

\* C19: the retry discipline, and once max_retries network failures have
\* occurred the call ends in a fatal exit
C19_RetriesThenFatalExit ==
    /\ RetryDiscipline
    /\ CallEnded /\ NetworkFailures = max_retries => retry_pc = "exited"

\* the same for a provider configured with at least one attempt
FatalExitWithAnAttempt ==
    /\ RetryDiscipline
    /\ CallEnded /\ max_retries >= 1 /\ NetworkFailures = max_retries => retry_pc = "exited"

(***************************************************************************)
(* One provider call of an ImprovedThemeWorker (specification              *)
(* SpecWorkerCall): _get_embeddings_with_cache acquires a request slot of  *)
(* the rate limiter, calls generate_embeddings inside the block, and       *)
(* leaves the block when the call returns or exits. request_log holds the  *)
(* acquisitions the limiter recorded, outcomes the API round trips.        *)
(***************************************************************************)
WorkerCallInit ==
    /\ retry_pc = "acquire"
    /\ max_retries \in 0..MaxRetries
    /\ attempt = 0
    /\ outcomes = <<>>
    /\ delays = <<>>
    /\ retry_now \in StartTime..(StartTime + MinRequestInterval)
    /\ request_times \in EarlierRequests
    /\ provider_last = IF request_times = <<>> THEN 0 ELSE request_times[Len(request_times)]
    /\ retry_result = None
    /\ RLParked
    /\ CacheParked
    /\ BackupParked
    /\ TaskParked
    /\ BatchParked
    /\ ExecParked
    /\ AggParked
    /\ ShareParked
    /\ LateParked

\* "with self.rate_limiter.acquire_request_slot():" the limiter's gates are
\* passed, the request is recorded and the block is entered
WorkerAcquire ==
    /\ retry_pc = "acquire"
    /\ LET t == EnterTime(shared_state, retry_now)
       IN /\ retry_now' = t
          /\ now' = t
          /\ shared_state' = BurstEnter(ResetMinuteCounter(shared_state, t), t)
          /\ request_log' = Append(request_log, t)
    /\ retry_pc' = "call"
    /\ UNCHANGED <<max_retries, attempt, outcomes, delays, request_times, provider_last,
                   retry_result>>
    /\ UNCHANGED <<impl, request_lock, pc, current_time, wake_at, start_wait, timed_out,
                   last_exit>>
    /\ UNCHANGED <<cacheVars, bkVars, taskVars, batchVars, execVars, aggVars, shareVars,
                   lateVars>>

\* the block is left, by the return of generate_embeddings or by its
\* SystemExit: the finally clause releases the slot
WorkerRelease ==
    /\ retry_pc \in {"returned", "exited"}
    /\ shared_state' = [shared_state EXCEPT
           !.active_requests = SlotAfterExit(@, retry_pc = "exited")]
    /\ retry_pc' = IF retry_pc = "returned" THEN "merged" ELSE "dead"
    /\ UNCHANGED <<max_retries, attempt, outcomes, delays, retry_now, request_times,
                   provider_last, retry_result>>
    /\ UNCHANGED <<impl, now, request_lock, pc, current_time, wake_at, start_wait,
                   timed_out, last_exit, request_log>>
    /\ UNCHANGED <<cacheVars, bkVars, taskVars, batchVars, execVars, aggVars, shareVars,
                   lateVars>>

WorkerCallNext ==
    \/ WorkerAcquire
    \/ RetryEnter
    \/ AttemptSucceeds
    \/ AttemptBadResponse
    \/ AttemptNetworkError
    \/ AttemptOtherError
    \/ WorkerRelease

SpecWorkerCall == WorkerCallInit /\ [][WorkerCallNext]_vars

\* C23 (as stated): every round trip to the embedding API, retries included,
\* happens under its own acquisition: the round trips never outnumber the
\* acquisitions the rate limiter recorded (requests_made,
\* requests_this_minute).
C23_RoundTripsWithinAcquisitions ==
    /\ Len(outcomes) <= Len(request_log)
    /\ Len(outcomes) <= shared_state.requests_this_minute

\* every round trip is made inside an acquired block
RoundTripsInsideBlock ==
    retry_pc = "attempt" => shared_state.active_requests = 1 /\ Len(request_log) = 1

(***************************************************************************)
(* ImprovedThemeWorker processes and the shared cache statistics           *)
(* (specification SpecStats): each worker looks its texts up in the shared *)
(* cache, then puts the embeddings of the texts it missed (the API answers *)
(* every text). A counter update "d[k] = d.get(k, 0) + 1" on a Manager     *)
(* dict is two calls to the manager: the read and the write are steps.     *)
(***************************************************************************)
InitialCacheStats == [hits |-> 0, misses |-> 0, writes |-> 0, cache_size |-> 0]

\* the counter _get_embedding_from_cache updates
LookupCounter(hit) == IF hit THEN "hits" ELSE "misses"

\* self.cache_stats.get(k, 0)
StatGet(stats, k) == stats[k]

\* self.cache_stats[k] = <the value read> + 1
StatSet(stats, k, read) == [stats EXCEPT ![k] = read + 1]

StatsInit ==
    /\ stat_pc = [w \in ShareWorkers |-> "get"]
    /\ stat_texts \in [ShareWorkers -> ShareTextLists]
    /\ stat_i = [w \in ShareWorkers |-> 1]
    /\ stat_missed = [w \in ShareWorkers |-> <<>>]
    /\ stat_hit = [w \in ShareWorkers |-> FALSE]
    /\ stat_local = [w \in ShareWorkers |-> 0]
    /\ cache_stats = InitialCacheStats
    /\ lookups_done = 0
    /\ puts_done = 0
    /\ shared_cache \in InitialCaches
    /\ cache_file = NoFile
    /\ got = None
    /\ put_log = <<>>
    /\ loaded = <<>>
    /\ puts_at_backup = <<>>
    /\ restored = <<>>
    /\ RLParked
    /\ BackupParked
    /\ TaskParked
    /\ BatchParked
    /\ ExecParked
    /\ AggParked
    /\ ShareParked
    /\ RetryParked
    /\ MgrParked
    /\ GtpParked
    /\ SnapParked

notStats == <<rlVars, cache_file, got, put_log, loaded, puts_at_backup, restored, bkVars,
              taskVars, batchVars, execVars, aggVars, shareVars, retryVars, mgrVars,
              gtpVars, snapVars>>

\* _get_embedding_from_cache: entry_dict = self.shared_cache.get(cache_key)
StatLookup(w) ==
    /\ stat_pc[w] = "get"
    /\ LET text == stat_texts[w][stat_i[w]]
           hit == WorkerCacheGet(shared_cache, text).some
       IN /\ stat_hit' = [stat_hit EXCEPT ![w] = hit]
          /\ stat_missed' = [stat_missed EXCEPT ![w] = IF hit THEN @ ELSE Append(@, text)]
    /\ lookups_done' = lookups_done + 1
    /\ stat_pc' = [stat_pc EXCEPT ![w] = "get_read"]
    /\ UNCHANGED <<stat_texts, stat_i, stat_local, cache_stats, puts_done, shared_cache>>
    /\ UNCHANGED notStats

\* _get_embedding_from_cache: self.cache_stats.get('hits' or 'misses', 0)
StatLookupRead(w) ==
    /\ stat_pc[w] = "get_read"
    /\ stat_local' = [stat_local EXCEPT ![w] = StatGet(cache_stats, LookupCounter(stat_hit[w]))]
    /\ stat_pc' = [stat_pc EXCEPT ![w] = "get_write"]
    /\ UNCHANGED <<stat_texts, stat_i, stat_missed, stat_hit, cache_stats, lookups_done,
                   puts_done, shared_cache>>
    /\ UNCHANGED notStats

\* _get_embedding_from_cache: self.cache_stats[...] = ... + 1; the loop of
\* _get_embeddings_with_cache goes on with the next text, or with the puts
StatLookupWrite(w) ==
    /\ stat_pc[w] = "get_write"
    /\ cache_stats' = StatSet(cache_stats, LookupCounter(stat_hit[w]), stat_local[w])
    /\ IF stat_i[w] < Len(stat_texts[w])
       THEN /\ stat_i' = [stat_i EXCEPT ![w] = @ + 1]
            /\ stat_pc' = [stat_pc EXCEPT ![w] = "get"]
       ELSE /\ stat_i' = [stat_i EXCEPT ![w] = 1]
            /\ stat_pc' = [stat_pc EXCEPT ![w] =
                               IF stat_missed[w] = <<>> THEN "done" ELSE "put"]
    /\ UNCHANGED <<stat_texts, stat_missed, stat_hit, stat_local, lookups_done, puts_done,
                   shared_cache>>
    /\ UNCHANGED notStats

\* _put_embedding_in_cache: self.shared_cache[cache_key] = entry.to_dict()
StatPut(w) ==
    /\ stat_pc[w] = "put"
    /\ LET text == stat_missed[w][stat_i[w]]
       IN shared_cache' = WorkerCachePut(shared_cache, text, ApiVector(text))
    /\ puts_done' = puts_done + 1
    /\ stat_pc' = [stat_pc EXCEPT ![w] = "put_read"]
    /\ UNCHANGED <<stat_texts, stat_i, stat_missed, stat_hit, stat_local, cache_stats,
                   lookups_done>>
    /\ UNCHANGED notStats

\* _put_embedding_in_cache: self.cache_stats.get('writes', 0)
StatPutRead(w) ==
    /\ stat_pc[w] = "put_read"
    /\ stat_local' = [stat_local EXCEPT ![w] = StatGet(cache_stats, "writes")]
    /\ stat_pc' = [stat_pc EXCEPT ![w] = "put_write"]
    /\ UNCHANGED <<stat_texts, stat_i, stat_missed, stat_hit, cache_stats, lookups_done,
                   puts_done, shared_cache>>
    /\ UNCHANGED notStats

\* _put_embedding_in_cache: self.cache_stats['writes'] = ... + 1 and
\* cache_stats['cache_size'] = len(self.shared_cache)
StatPutWrite(w) ==
    /\ stat_pc[w] = "put_write"
    /\ cache_stats' = [StatSet(cache_stats, "writes", stat_local[w])
                          EXCEPT !.cache_size = Len(shared_cache)]
    /\ IF stat_i[w] < Len(stat_missed[w])
       THEN /\ stat_i' = [stat_i EXCEPT ![w] = @ + 1]
            /\ stat_pc' = [stat_pc EXCEPT ![w] = "put"]
       ELSE /\ stat_i' = [stat_i EXCEPT ![w] = 1]
            /\ stat_pc' = [stat_pc EXCEPT ![w] = "done"]
    /\ UNCHANGED <<stat_texts, stat_missed, stat_hit, stat_local, lookups_done, puts_done,
                   shared_cache>>
    /\ UNCHANGED notStats

StatsNext ==
    \E w \in ShareWorkers :
        \/ StatLookup(w)
        \/ StatLookupRead(w)
        \/ StatLookupWrite(w)
        \/ StatPut(w)
        \/ StatPutRead(w)
        \/ StatPutWrite(w)

SpecStats == StatsInit /\ [][StatsNext]_vars

\* C22 (as stated): after any interleaving of the workers' lookups and puts
\* the shared counters have lost no update: hits + misses is the number of
\* lookups performed and writes is the number of puts performed.
C22_NoLostStatUpdate ==
    (\A w \in ShareWorkers : stat_pc[w] = "done")
        => /\ cache_stats.hits + cache_stats.misses = lookups_done
           /\ cache_stats.writes = puts_done

(***************************************************************************)
(* EmbeddingCacheManager (specification SpecMgr): ThemeWorker processes,   *)
(* each with its own manager, on one cache file. A manager is built at the *)
(* start of its worker and loads the file; the worker puts and syncs, and  *)
(* syncs once more when it exits. A file is its header and its rows; a     *)
(* write may fail with an OSError and a worker may be killed while it      *)
(* writes.                                                                 *)
(***************************************************************************)
\* worker processes with a manager each
NumManagers == 2
\* put and sync calls of one manager
MaxMgrOps == 2
\* sync_interval
SyncInterval == 1
\* the clock's last value
MaxMgrTime == 2

Managers == 1..NumManagers
\* the word each worker's theme brings
MgrWordList == <<WordCat, WordDog, WordS>>
MgrWordsOf(m) == {MgrWordList[((m - 1) % Len(MgrWordList)) + 1]}

\* _cache[cache_key] = entry
MgrSet(cache, word) ==
    CacheSet(cache, [key |-> NormalizeKey(word), word |-> word, embedding |-> ApiVector(word)])

\* the file a save has fully written: the header and one row per entry
SnapshotOf(cache) ==
    [exists |-> TRUE, header |-> TRUE,
     rows |-> [i \in 1..Len(cache) |-> [word |-> cache[i].word,
                                        embedding |-> cache[i].embedding]]]

\* open(cache_file, 'w'): the file is created or truncated
Truncated == [exists |-> TRUE, header |-> FALSE, rows |-> <<>>]

\* _load_from_disk: the rows of the file, each under its normalized key
RECURSIVE MgrLoadRows(_, _)
MgrLoadRows(cache, rows) ==
    IF rows = <<>> THEN cache
    ELSE MgrLoadRows(CacheSet(cache, [key |-> NormalizeKey(Head(rows).word),
                                      word |-> Head(rows).word,
                                      embedding |-> Head(rows).embedding]),
                     Tail(rows))

MgrLoad(file) == IF file.exists THEN MgrLoadRows(<<>>, file.rows) ELSE <<>>

\* the cache file the workers find: none, or an earlier snapshot
InitialMgrFiles ==
    {NoFile, SnapshotOf(MgrSet(<<>>, WordPet))}

MgrInit ==
    /\ mgr_file \in InitialMgrFiles
    /\ mgr_tmp = NoFile
    /\ mgr_backup = NoFile
    /\ mgr_flock = 0
    /\ mgr_now = 0
    /\ mgr_pc = [m \in Managers |-> "idle"]
    /\ mgr_cache = [m \in Managers |-> MgrLoad(mgr_file)]
    /\ mgr_dirty = [m \in Managers |-> FALSE]
    /\ mgr_last_sync = [m \in Managers |-> 0]
    /\ mgr_stats = [m \in Managers |-> [syncs |-> 0]]
    /\ mgr_row = [m \in Managers |-> 0]
    /\ mgr_call = [m \in Managers |-> [op |-> "init", saves |-> FALSE, syncs |-> 0]]
    /\ mgr_fault = [m \in Managers |-> FALSE]
    /\ mgr_exiting = [m \in Managers |-> FALSE]
    /\ mgr_put_log = {}
    /\ mgr_ops = [m \in Managers |-> 0]
    /\ RLParked
    /\ CacheParked
    /\ BackupParked
    /\ TaskParked
    /\ BatchParked
    /\ ExecParked
    /\ AggParked
    /\ ShareParked
    /\ RetryParked
    /\ StatsParked
    /\ GtpParked
    /\ SnapParked

notMgr == <<rlVars, cacheVars, bkVars, taskVars, batchVars, execVars, aggVars, shareVars,
            retryVars, statVars, gtpVars, snapVars>>

\* where a manager is once its call has ended
AfterCall(m) == IF mgr_exiting[m] THEN "exited" ELSE "idle"

MgrTick ==
    /\ mgr_now < MaxMgrTime
    /\ mgr_now' = mgr_now + 1
    /\ UNCHANGED <<mgr_pc, mgr_cache, mgr_dirty, mgr_last_sync, mgr_stats, mgr_file, mgr_tmp,
                   mgr_backup, mgr_flock, mgr_row, mgr_call, mgr_fault, mgr_exiting,
                   mgr_put_log, mgr_ops>>
    /\ UNCHANGED notMgr

\* put(word, embedding): the entry is stored, and a save begins when
\* sync_interval has passed since _last_sync
MgrPut(m, word) ==
    /\ mgr_pc[m] = "idle"
    /\ mgr_ops[m] < MaxMgrOps
    /\ mgr_ops' = [mgr_ops EXCEPT ![m] = @ + 1]
    /\ mgr_cache' = [mgr_cache EXCEPT ![m] = MgrSet(@, word)]
    /\ mgr_dirty' = [mgr_dirty EXCEPT ![m] = TRUE]
    /\ mgr_put_log' = mgr_put_log \cup {word}
    /\ LET saves == mgr_now - mgr_last_sync[m] > SyncInterval
       IN /\ mgr_call' = [mgr_call EXCEPT ![m] =
                 [op |-> "put", saves |-> saves, syncs |-> mgr_stats[m].syncs]]
          /\ mgr_pc' = [mgr_pc EXCEPT ![m] = IF saves THEN "backup" ELSE "idle"]
    /\ mgr_fault' = [mgr_fault EXCEPT ![m] = FALSE]
    /\ UNCHANGED <<mgr_last_sync, mgr_stats, mgr_file, mgr_tmp, mgr_backup, mgr_flock,
                   mgr_now, mgr_row, mgr_exiting>>
    /\ UNCHANGED notMgr

\* sync(), called by the worker (exiting = FALSE) or by the finally clause
\* of ThemeWorker.run (exiting = TRUE): a dirty cache is saved
MgrSync(m, exiting) ==
    /\ mgr_pc[m] = "idle"
    /\ exiting \/ mgr_ops[m] < MaxMgrOps
    /\ mgr_ops' = [mgr_ops EXCEPT ![m] = IF exiting THEN @ ELSE @ + 1]
    /\ mgr_exiting' = [mgr_exiting EXCEPT ![m] = exiting]
    /\ LET saves == mgr_dirty[m] /\ mgr_cache[m] # <<>>
       IN /\ mgr_call' = [mgr_call EXCEPT ![m] =
                 [op |-> "sync", saves |-> saves, syncs |-> mgr_stats[m].syncs]]
          /\ mgr_pc' = [mgr_pc EXCEPT ![m] =
                 IF saves THEN "backup" ELSE IF exiting THEN "exited" ELSE "idle"]
    /\ mgr_fault' = [mgr_fault EXCEPT ![m] = FALSE]
    /\ UNCHANGED <<mgr_cache, mgr_dirty, mgr_last_sync, mgr_stats, mgr_file, mgr_tmp,
                   mgr_backup, mgr_flock, mgr_now, mgr_row, mgr_put_log>>
    /\ UNCHANGED notMgr

\* _save_to_disk: "if backup and self.cache_file.exists(): _create_backup()"
SaveBackup(m) ==
    /\ mgr_pc[m] = "backup"
    /\ mgr_backup' = IF mgr_file.exists THEN mgr_file ELSE mgr_backup
    /\ mgr_pc' = [mgr_pc EXCEPT ![m] = "lock"]
    /\ UNCHANGED <<mgr_cache, mgr_dirty, mgr_last_sync, mgr_stats, mgr_file, mgr_tmp,
                   mgr_flock, mgr_now, mgr_row, mgr_call, mgr_fault, mgr_exiting,
                   mgr_put_log, mgr_ops>>
    /\ UNCHANGED notMgr

\* _file_lock('w'): the flock is taken and the cache file is opened for
\* writing
SaveOpen(m) ==
    /\ mgr_pc[m] = "lock"
    /\ mgr_flock = 0
    /\ mgr_flock' = m
    /\ mgr_file' = Truncated
    /\ mgr_row' = [mgr_row EXCEPT ![m] = 0]
    /\ mgr_pc' = [mgr_pc EXCEPT ![m] = "write"]
    /\ UNCHANGED <<mgr_cache, mgr_dirty, mgr_last_sync, mgr_stats, mgr_tmp, mgr_backup,
                   mgr_now, mgr_call, mgr_fault, mgr_exiting, mgr_put_log, mgr_ops>>
    /\ UNCHANGED notMgr

\* _file_lock: the flock is held by another process for lock_timeout: the
\* TimeoutError is logged and counted in stats['errors'], and the save ends
SaveLockTimeout(m) ==
    /\ mgr_pc[m] = "lock"
    /\ mgr_flock # 0
    /\ mgr_fault' = [mgr_fault EXCEPT ![m] = TRUE]
    /\ mgr_pc' = [mgr_pc EXCEPT ![m] = AfterCall(m)]
    /\ UNCHANGED <<mgr_cache, mgr_dirty, mgr_last_sync, mgr_stats, mgr_file, mgr_tmp, mgr_backup,
                   mgr_flock, mgr_now, mgr_row, mgr_call, mgr_exiting, mgr_put_log, mgr_ops>>
    /\ UNCHANGED notMgr

\* writer.writeheader(), then writer.writerow(row) for the next entry
SaveWrite(m) ==
    /\ mgr_pc[m] = "write"
    /\ mgr_row[m] <= Len(mgr_cache[m])
    /\ mgr_file' = IF mgr_row[m] = 0
                   THEN [mgr_file EXCEPT !.header = TRUE]
                   ELSE [mgr_file EXCEPT !.rows =
                            Append(@, [word |-> mgr_cache[m][mgr_row[m]].word,
                                       embedding |-> mgr_cache[m][mgr_row[m]].embedding])]
    /\ mgr_row' = [mgr_row EXCEPT ![m] = @ + 1]
    /\ UNCHANGED <<mgr_pc, mgr_cache, mgr_dirty, mgr_last_sync, mgr_stats, mgr_tmp,
                   mgr_backup, mgr_flock, mgr_now, mgr_call, mgr_fault, mgr_exiting,
                   mgr_put_log, mgr_ops>>
    /\ UNCHANGED notMgr

\* a write raises OSError: _file_lock closes the file and releases the
\* flock; _save_to_disk logs the error and finds no temp file to remove
SaveWriteFails(m) ==
    /\ mgr_pc[m] = "write"
    /\ mgr_row[m] <= Len(mgr_cache[m])
    /\ mgr_flock' = 0
    /\ mgr_fault' = [mgr_fault EXCEPT ![m] = TRUE]
    /\ mgr_tmp' = NoFile
    /\ mgr_pc' = [mgr_pc EXCEPT ![m] = AfterCall(m)]
    /\ UNCHANGED <<mgr_cache, mgr_dirty, mgr_last_sync, mgr_stats, mgr_file, mgr_backup, mgr_now,
                   mgr_row, mgr_call, mgr_exiting, mgr_put_log, mgr_ops>>
    /\ UNCHANGED notMgr

\* the worker process is killed while it writes: the flock goes with it
SaveKilled(m) ==
    /\ mgr_pc[m] = "write"
    /\ mgr_flock' = 0
    /\ mgr_fault' = [mgr_fault EXCEPT ![m] = TRUE]
    /\ mgr_pc' = [mgr_pc EXCEPT ![m] = "killed"]
    /\ UNCHANGED <<mgr_cache, mgr_dirty, mgr_last_sync, mgr_stats, mgr_file, mgr_tmp,
                   mgr_backup, mgr_now, mgr_row, mgr_call, mgr_exiting, mgr_put_log, mgr_ops>>
    /\ UNCHANGED notMgr

\* the with block of _file_lock ends: the file is closed, the flock released
SaveClose(m) ==
    /\ mgr_pc[m] = "write"
    /\ mgr_row[m] = Len(mgr_cache[m]) + 1
    /\ mgr_flock' = 0
    /\ mgr_pc' = [mgr_pc EXCEPT ![m] = "move"]
    /\ UNCHANGED <<mgr_cache, mgr_dirty, mgr_last_sync, mgr_stats, mgr_file, mgr_tmp,
                   mgr_backup, mgr_now, mgr_row, mgr_call, mgr_fault, mgr_exiting,
                   mgr_put_log, mgr_ops>>
    /\ UNCHANGED notMgr

\* shutil.move(temp_file, cache_file), then _dirty, _last_sync and
\* stats['syncs']; without a temp file the move raises FileNotFoundError,
\* which the except clause logs
SaveMove(m) ==
    /\ mgr_pc[m] = "move"
    /\ IF mgr_tmp.exists
       THEN /\ mgr_file' = mgr_tmp
            /\ mgr_tmp' = NoFile
            /\ mgr_dirty' = [mgr_dirty EXCEPT ![m] = FALSE]
            /\ mgr_last_sync' = [mgr_last_sync EXCEPT ![m] = mgr_now]
            /\ mgr_stats' = [mgr_stats EXCEPT ![m].syncs = @ + 1]
       ELSE UNCHANGED <<mgr_file, mgr_tmp, mgr_dirty, mgr_last_sync, mgr_stats>>
    /\ mgr_pc' = [mgr_pc EXCEPT ![m] = AfterCall(m)]
    /\ UNCHANGED <<mgr_cache, mgr_backup, mgr_flock, mgr_now, mgr_row, mgr_call, mgr_fault,
                   mgr_exiting, mgr_put_log, mgr_ops>>
    /\ UNCHANGED notMgr

MgrNext ==
    \/ MgrTick
    \/ \E m \in Managers :
         \/ \E word \in MgrWordsOf(m) : MgrPut(m, word)
         \/ \E exiting \in BOOLEAN : MgrSync(m, exiting)
         \/ SaveBackup(m)
         \/ SaveOpen(m)
         \/ SaveLockTimeout(m)
         \/ SaveWrite(m)
         \/ SaveWriteFails(m)
         \/ SaveKilled(m)
         \/ SaveClose(m)
         \/ SaveMove(m)

SpecMgr == MgrInit /\ [][MgrNext]_vars

\* the manager is inside _save_to_disk
Saving(m) == mgr_pc[m] \in {"backup", "lock", "write", "move"}

\* C24 (as stated): _save_to_disk writes a temporary file and only then
\* replaces the cache file: every step of a save, also one that fails or is
\* interrupted, leaves the cache file as it was, except the replacement by
\* the completely written temporary file; and no step of a save changes the
\* in-memory cache.
C24_CacheFileChangesOnlyByReplace ==
    [][/\ mgr_file' # mgr_file
           => \E m \in Managers :
                 mgr_pc[m] = "move" /\ mgr_tmp.exists /\ mgr_file' = mgr_tmp
       /\ \A m \in Managers : Saving(m) => mgr_cache'[m] = mgr_cache[m]]_vars

\* the file has a row for the word
HasRow(file, word) ==
    /\ file.exists
    /\ \E i \in 1..Len(file.rows) : NormalizeKey(file.rows[i].word) = NormalizeKey(word)

\* C27 (as stated): once every worker has exited cleanly, each syncing its
\* cache, the cache file has an entry for every word any worker put.
C27_FileHoldsEveryWorkersPuts ==
    (\A m \in Managers : mgr_pc[m] = "exited" /\ ~mgr_fault[m])
        => \A word \in mgr_put_log : HasRow(mgr_file, word)

\* the manager's sync() saved a dirty, non-empty cache and met no I/O fault
SyncedWithoutFault(m) ==
    /\ mgr_pc[m] \in {"idle", "exited"}
    /\ mgr_call[m].op = "sync"
    /\ mgr_call[m].saves
    /\ ~mgr_fault[m]

\* C29 (as stated): after sync() on a non-empty dirty cache with no I/O
\* fault the cache is clean: _dirty is False and stats['syncs'] was
\* incremented.
C29_SyncLeavesCacheClean ==
    \A m \in Managers :
        SyncedWithoutFault(m)
            => /\ ~mgr_dirty[m]
               /\ mgr_stats[m].syncs = mgr_call[m].syncs + 1

\* what a save without a fault does achieve: the cache file holds the
\* manager's own entries
SyncWritesOwnEntries ==
    \A m \in Managers :
        /\ SyncedWithoutFault(m)
        /\ \A o \in Managers \ {m} : ~Saving(o) /\ mgr_call[o].op = "init"
        => mgr_file = SnapshotOf(mgr_cache[m])

\* the keys a cache holds
KeysOf(cache) == {cache[k].key : k \in 1..Len(cache)}

(***************************************************************************)
(* SharedEmbeddingCache: puts, batches and clears, a backup_to_csv() and   *)
(* the fresh cache a later process constructs on the cache file.           *)
(***************************************************************************)
notSnap == <<rlVars, bkVars, taskVars, batchVars, execVars, aggVars, shareVars, retryVars,
             statVars, mgrVars, gtpVars>>

\* backup_to_csv() with no other writer of the file; the keys the cache
\* holds at the call are remembered
SnapBackup ==
    /\ cache_file' = BackupFile(shared_cache, cache_file)
    /\ puts_at_backup' = put_log
    /\ keys_at_backup' = Some(KeysOf(shared_cache))
    /\ fresh_keys' = None
    /\ UNCHANGED <<shared_cache, got, put_log, loaded, restored>>
    /\ UNCHANGED notSnap

\* the process ends and a fresh SharedEmbeddingCache is constructed on the
\* same cache file: __init__ calls _load_from_csv
SnapFreshLoad ==
    /\ shared_cache' = LoadFromCsv(cache_file)
    /\ loaded' = shared_cache'
    /\ restored' = IF puts_at_backup = put_log THEN put_log ELSE <<>>
    /\ put_log' = <<>>
    /\ puts_at_backup' = <<>>
    /\ got' = None
    /\ fresh_keys' = Some(KeysOf(shared_cache'))
    /\ UNCHANGED <<cache_file, keys_at_backup>>
    /\ UNCHANGED notSnap

SnapNext ==
    \/ Put
    \/ PutBatch
    \/ Clear
    \/ SnapBackup
    \/ SnapFreshLoad

SpecSnapshot == CacheInit /\ [][SnapNext]_vars

\* C30: after any sequence of put, put_batch and clear followed by
\* backup_to_csv(), a fresh cache loaded from the cache file holds exactly
\* the keys the in-memory cache held at the time of the backup; after
\* clear() and backup_to_csv() the fresh load is empty.
C30_FreshLoadMirrorsBackup ==
    (keys_at_backup # None /\ fresh_keys # None) => fresh_keys.val = keys_at_backup.val

\* the backup of a cache that is not empty is what a fresh cache loads
NonEmptyBackupMirrored ==
    (keys_at_backup # None /\ fresh_keys # None /\ keys_at_backup.val # {})
        => fresh_keys.val = keys_at_backup.val

\* C28: for every candidate list, blank candidates included and in any
\* order, no two words kept by the deduplication are duplicates of each
\* other: their normalized forms are not equal and neither is the other plus
\* a trailing "s".
C28_NoTwoKeptAreDuplicates ==
    \A i, j \in 1..Len(unique_words) :
        i # j => ~Related(TrimmedLower(unique_words[i]), TrimmedLower(unique_words[j]))

\* with no blank candidate no two kept words are duplicates of each other
NoKeptDuplicatesWithoutBlank ==
    (\A i \in 1..Len(task.candidates) : ~IsBlank(task.candidates[i]))
        => C28_NoTwoKeptAreDuplicates

\* the texts of the batch of the task: the theme, then the unique words
BatchTexts == <<task.theme>> \o unique_words

\* C26: generate_embeddings returns, at every position, None or the embedding
\* obtained for the text at that position, also when some texts are blank;
\* so the worker holds for every text of its batch None or that text's own
\* embedding, and every entry of the shared cache holds its word's embedding.
C26_EmbeddingsAlignedWithTexts ==
    /\ task_pc = "rank"
           => \A i \in 1..Len(cached_embeddings) :
                  \/ cached_embeddings[i] = None
                  \/ cached_embeddings[i] = Some(ApiVector(BatchTexts[i]))
    /\ \A k \in 1..Len(shared_cache) :
           shared_cache[k].embedding = ApiVector(shared_cache[k].word)

\* with no blank text in the batch the embeddings are aligned with the texts
AlignedWithoutBlankText ==
    (\A i \in 1..Len(BatchTexts) : ~IsBlank(BatchTexts[i]))
        => C26_EmbeddingsAlignedWithTexts

(***************************************************************************)
(* GeminiTaskProcessor.process_themes: the workers are started, then       *)
(* _submit_tasks puts every task on the bounded task queue, and only then  *)
(* _collect_results reads the bounded result queue. A worker's run() loop  *)
(* takes a task, processes it and puts the result with a blocking put.     *)
(* No shutdown is requested and no worker dies.                            *)
(***************************************************************************)
\* task_queue_size
TaskQueueSize == 1
\* result_queue_size
ResultQueueSize == 1
\* most tasks the generator makes
MaxGenTasks == 5

GtpWorkers == 1..WorkerCount

\* _initialize_shared_resources and _start_workers: empty queues, every
\* worker in its loop; tasks = TaskGenerator.create_tasks_for_puzzles(...)
GtpInit ==
    /\ gtp_pc = "submit"
    /\ gtp_tasks \in 1..MaxGenTasks
    /\ gtp_next = 1
    /\ task_queue = <<>>
    /\ result_queue = <<>>
    /\ wk_pc = [w \in GtpWorkers |-> "get"]
    /\ wk_result = [w \in GtpWorkers |-> None]
    /\ submitted_count = 0
    /\ total_tasks = 0
    /\ completed_tasks = 0
    /\ failed_tasks = 0
    /\ gtp_results = {}
    /\ RLParked
    /\ CacheParked
    /\ BackupParked
    /\ TaskParked
    /\ BatchParked
    /\ ExecParked
    /\ AggParked
    /\ ShareParked
    /\ RetryParked
    /\ StatsParked
    /\ MgrParked
    /\ SnapParked

notGtp == <<rlVars, cacheVars, bkVars, taskVars, batchVars, execVars, aggVars, shareVars,
            retryVars, statVars, mgrVars, snapVars>>

\* _submit_tasks: self.task_queue.put(task, timeout=10) finds room;
\* submitted_count += 1
SubmitPut ==
    /\ gtp_pc = "submit"
    /\ gtp_next <= gtp_tasks
    /\ Len(task_queue) < TaskQueueSize
    /\ task_queue' = Append(task_queue, gtp_next)
    /\ submitted_count' = submitted_count + 1
    /\ gtp_next' = gtp_next + 1
    /\ UNCHANGED <<gtp_pc, gtp_tasks, result_queue, wk_pc, wk_result, total_tasks,
                   completed_tasks, failed_tasks, gtp_results, notGtp>>

\* no worker is waiting in task_queue.get: each one is processing a task
\* or blocked in result_queue.put
AllWorkersBusy == \A w \in GtpWorkers : wk_pc[w] = "put"

\* _submit_tasks: the queue stays full for the 10 seconds of the put, which
\* raises queue.Full; the except clause logs the task and the loop goes on
\* to the next task
SubmitTimeout ==
    /\ gtp_pc = "submit"
    /\ gtp_next <= gtp_tasks
    /\ Len(task_queue) >= TaskQueueSize
    /\ AllWorkersBusy
    /\ gtp_next' = gtp_next + 1
    /\ UNCHANGED <<gtp_pc, gtp_tasks, task_queue, result_queue, wk_pc, wk_result,
                   submitted_count, total_tasks, completed_tasks, failed_tasks,
                   gtp_results, notGtp>>

\* _submit_tasks: after the loop, self.total_tasks = submitted_count; then
\* process_themes calls _collect_results
SubmitFinish ==
    /\ gtp_pc = "submit"
    /\ gtp_next > gtp_tasks
    /\ total_tasks' = submitted_count
    /\ gtp_pc' = "collect"
    /\ UNCHANGED <<gtp_tasks, gtp_next, task_queue, result_queue, wk_pc, wk_result,
                   submitted_count, completed_tasks, failed_tasks, gtp_results, notGtp>>

\* ThemeWorker.run: task = self.task_queue.get(timeout=30);
\* result = self._process_theme_task(task), a success or a failure
WorkerTakeTask(w) ==
    /\ gtp_pc \in {"submit", "collect"}
    /\ wk_pc[w] = "get"
    /\ task_queue # <<>>
    /\ \E success \in BOOLEAN :
           wk_result' = [wk_result EXCEPT ![w] =
                             [task_id |-> Head(task_queue), success |-> success]]
    /\ task_queue' = Tail(task_queue)
    /\ wk_pc' = [wk_pc EXCEPT ![w] = "put"]
    /\ UNCHANGED <<gtp_pc, gtp_tasks, gtp_next, result_queue, submitted_count,
                   total_tasks, completed_tasks, failed_tasks, gtp_results, notGtp>>

\* ThemeWorker.run: self.result_queue.put(result) blocks while the queue is
\* full; task_queue.task_done() then raises (mp.Queue has no task_done),
\* the except clause logs it and the loop continues
WorkerSendResult(w) ==
    /\ gtp_pc \in {"submit", "collect"}
    /\ wk_pc[w] = "put"
    /\ Len(result_queue) < ResultQueueSize
    /\ result_queue' = Append(result_queue, wk_result[w])
    /\ wk_result' = [wk_result EXCEPT ![w] = None]
    /\ wk_pc' = [wk_pc EXCEPT ![w] = "get"]
    /\ UNCHANGED <<gtp_pc, gtp_tasks, gtp_next, task_queue, submitted_count,
                   total_tasks, completed_tasks, failed_tasks, gtp_results, notGtp>>

\* _collect_results: while completed_tasks + failed_tasks < total_tasks:
\* result = self.result_queue.get(timeout=5); self.results[task_id] = result
\* and one of the two counters grows
CollectOneResult ==
    /\ gtp_pc = "collect"
    /\ completed_tasks + failed_tasks < total_tasks
    /\ result_queue # <<>>
    /\ LET res == Head(result_queue)
       IN  /\ gtp_results' = gtp_results \cup {res.task_id}
           /\ completed_tasks' = completed_tasks + (IF res.success THEN 1 ELSE 0)
           /\ failed_tasks' = failed_tasks + (IF res.success THEN 0 ELSE 1)
    /\ result_queue' = Tail(result_queue)
    /\ UNCHANGED <<gtp_pc, gtp_tasks, gtp_next, task_queue, wk_pc, wk_result,
                   submitted_count, total_tasks, notGtp>>

\* _collect_results: the loop condition is false, the results are returned
CollectFinish ==
    /\ gtp_pc = "collect"
    /\ completed_tasks + failed_tasks >= total_tasks
    /\ gtp_pc' = "done"
    /\ UNCHANGED <<gtp_tasks, gtp_next, task_queue, result_queue, wk_pc, wk_result,
                   submitted_count, total_tasks, completed_tasks, failed_tasks,
                   gtp_results, notGtp>>

GtpNext ==
    \/ SubmitPut
    \/ SubmitTimeout
    \/ SubmitFinish
    \/ \E w \in GtpWorkers : WorkerTakeTask(w)
    \/ \E w \in GtpWorkers : WorkerSendResult(w)
    \/ CollectOneResult
    \/ CollectFinish

SpecGtp == GtpInit /\ [][GtpNext]_vars

\* C25: with no shutdown and no worker failure every generated task is
\* enqueued and one result for it is collected: once _submit_tasks has
\* returned total_tasks is the number of generated tasks, and once
\* _collect_results has returned self.results holds every generated task.
C25_EveryTaskSubmittedAndCollected ==
    /\ gtp_pc \in {"collect", "done"} => total_tasks = gtp_tasks
    /\ gtp_pc = "done" => /\ gtp_results = 1..gtp_tasks
                          /\ completed_tasks + failed_tasks = gtp_tasks

\* what the queues and the workers can hold before anything is collected
HoldingCapacity == TaskQueueSize + ResultQueueSize + WorkerCount

\* while _submit_tasks runs nothing is collected, so the tasks submitted
\* and not dropped never exceed what the queues and the workers hold
SubmittedWithinCapacity ==
    gtp_pc = "submit" => submitted_count <= HoldingCapacity

\* every task that was enqueued is collected exactly once
EnqueuedTasksCollectedOnce ==
    gtp_pc = "done" => /\ Cardinality(gtp_results) = total_tasks
                       /\ completed_tasks + failed_tasks = total_tasks

====
